---- MODULE Spec2Model ----
(***************************************************************************)
(* AppRole SecretID registry of builtin/credential/approle/validation.go:  *)
(* registerSecretIDEntry, createSecretIDAccessorEntry,                     *)
(* secretIDAccessorEntry, deleteSecretIDAccessorEntry and                  *)
(* flushRoleSecrets, run by concurrent goroutines over a logical.Storage   *)
(* without transactions, synchronised by the striped SecretID locks, the   *)
(* striped accessor locks and the SecretID listing lock; and the functions *)
(* createHMAC, deriveSecretIDTTL and verifyCIDRRoleSecretIDSubset.  The    *)
(* handlers of the CEL roles of builtin/logical/pki/path_cel.go run over   *)
(* the storage of their own mount.                                         *)
(*                                                                         *)
(* Every goroutine runs one call.  One step of the model is one lock       *)
(* operation or one storage call of the source; the code between two such  *)
(* calls touches only the goroutine's own locals and belongs to the step   *)
(* before it.                                                              *)
(***************************************************************************)
EXTENDS Integers, Sequences, FiniteSets, TLC

(***************************************************************************)
(* Bounds of the model.                                                    *)
(***************************************************************************)
\* Number of goroutines, each running one call.
NumProcs == 3
\* Number of accessor UUIDs uuid.GenerateUUID can hand out.
MaxUUIDs == 3

(***************************************************************************)
(* Program constants.                                                      *)
(***************************************************************************)
maxHmacInputLength == 4096

secretIDPrefix == "secret_id/"
secretIDLocalPrefix == "secret_id_local/"
secretIDAccessorPrefix == "accessor/"
secretIDAccessorLocalPrefix == "accessor_local/"

(***************************************************************************)
(* Inputs.  A string is named by a short model string; StrLen gives the    *)
(* byte length of the string it stands for.                                *)
(***************************************************************************)
Procs == 1..NumProcs

RoleNames == {"r1", "r2"}
SecretIDs == {"s1", "s2"}
\* A SecretID and a role name longer than maxHmacInputLength, and a SecretID
\* of exactly and of one less than maxHmacInputLength bytes.
OversizedSecretID == "oversized"
OversizedRoleName == "oversizedRole"
LongestSecretID == "longest"
LongSecretID == "long"
HmacKey == "k"

StrLen(s) ==
    IF s = "" THEN 0
    ELSE IF s \in {OversizedSecretID, OversizedRoleName} THEN maxHmacInputLength + 1
    ELSE IF s = LongestSecretID THEN maxHmacInputLength
    ELSE IF s = LongSecretID THEN maxHmacInputLength - 1
    ELSE 2

\* b.System().MaxLeaseTTL(): the mount's maximum lease TTL, a time.Duration.
MaxLeaseTTL == 2
\* The zero time.Time and the zero time.Duration.
ZeroTime == 0

\* The UUIDs uuid.GenerateUUID returns, in the order it returns them: every
\* call returns a value no earlier call returned.
UUIDs == [i \in 1..(MaxUUIDs + 1) |-> "uuid" \o ToString(i)]

Nil == [kind |-> "nil"]
NoErr == "nil"

(***************************************************************************)
(* createHMAC: the hex SHA256 HMAC of value under key.  The digest is      *)
(* modelled as a term over (key, value): equal inputs give equal digests,  *)
(* different inputs different digests (collision resistance).              *)
(***************************************************************************)
\* createHMAC without the check of the length of value.
createHMAC_NoLengthCheck(key, value) ==
    IF key = "" THEN [err |-> "invalid HMAC key", hmac |-> ""]
    ELSE [err |-> NoErr, hmac |-> "hmac(" \o key \o "," \o value \o ")"]

\* createHMAC that rejects a value of maxHmacInputLength bytes too.
createHMAC_OffByOne(key, value) ==
    IF key = "" THEN [err |-> "invalid HMAC key", hmac |-> ""]
    ELSE IF StrLen(value) >= maxHmacInputLength
         THEN [err |-> "value is longer than maximum", hmac |-> ""]
         ELSE [err |-> NoErr, hmac |-> "hmac(" \o key \o "," \o value \o ")"]

createHMAC(key, value) ==
    IF key = "" THEN [err |-> "invalid HMAC key", hmac |-> ""]
    ELSE IF StrLen(value) > maxHmacInputLength
         THEN [err |-> "value is longer than maximum", hmac |-> ""]
         ELSE [err |-> NoErr, hmac |-> "hmac(" \o key \o "," \o value \o ")"]

\* salt.SaltID: the salted hash of an accessor.
SaltID(accessor) == "salt(" \o accessor \o ")"

(***************************************************************************)
(* logical.Storage: a map from keys to entries.  A key is the tuple of the *)
(* path segments the source joins with fmt.Sprintf or +.                   *)
(***************************************************************************)
StorageGet(s, key) == IF key \in DOMAIN s THEN s[key] ELSE Nil

StoragePut(s, key, value) ==
    [k \in DOMAIN s \cup {key} |-> IF k = key THEN value ELSE s[k]]

StorageDelete(s, key) == [k \in DOMAIN s \ {key} |-> s[k]]

\* secretIDEntryIndex of an index that leaves the role out.
secretIDEntryIndex_NoRole(roleSecretIDPrefix, roleNameHMAC, secretIDHMAC) ==
    <<roleSecretIDPrefix, "", secretIDHMAC>>

\* Storage index of a SecretID entry: "%s%s/%s".
secretIDEntryIndex(roleSecretIDPrefix, roleNameHMAC, secretIDHMAC) ==
    <<roleSecretIDPrefix, roleNameHMAC, secretIDHMAC>>

\* Storage index of an accessor entry: accessorPrefix + salt.SaltID(accessor).
accessorEntryIndex(roleSecretIDPrefix, secretIDAccessor) ==
    LET accessorPrefix == IF roleSecretIDPrefix = secretIDLocalPrefix
                          THEN secretIDAccessorLocalPrefix
                          ELSE secretIDAccessorPrefix
    IN  <<accessorPrefix, SaltID(secretIDAccessor)>>

(***************************************************************************)
(* sync.RWMutex: the goroutine holding it in write mode (0: none) and the  *)
(* goroutines holding it in read mode.  Go lets a waiting writer keep new  *)
(* readers out; that only removes interleavings and is left out.           *)
(***************************************************************************)
FreeLock == [w |-> 0, r |-> {}]
CanRLock(l) == l.w = 0
CanLock(l) == l.w = 0 /\ l.r = {}
RLocked(l, p) == [l EXCEPT !.r = @ \cup {p}]
RUnlocked(l, p) == [l EXCEPT !.r = @ \ {p}]
Locked(l, p) == [l EXCEPT !.w = p]
Unlocked(l, p) == [l EXCEPT !.w = 0]

\* Number of slots of a lock stripe (locksutil.CreateLocks).
LockCount == 2
Slots == 0..(LockCount - 1)

\* The SecretID HMACs and the accessors a lock can be asked for.
SecretIDHMACs == {createHMAC(HmacKey, s).hmac : s \in SecretIDs}
UUIDIndex(a) == CHOOSE i \in DOMAIN UUIDs : UUIDs[i] = a

VARIABLES
    storage,                \* logical.Storage: key -> entry
    secretIDLocks,          \* b.secretIDLocks: slot -> RWMutex
    secretIDAccessorLocks,  \* b.secretIDAccessorLocks: slot -> RWMutex
    secretIDListingLock,    \* b.secretIDListingLock
    uuidCount,              \* number of UUIDs generated so far
    pc,                     \* goroutine -> its position in its call
    call,                   \* goroutine -> the call it runs and its arguments
    loc,                    \* goroutine -> the locals of its call
    ret,                    \* goroutine -> what its call returned
    hist                    \* goroutine -> what happened while its flush ran

vars == <<storage, secretIDLocks, secretIDAccessorLocks, secretIDListingLock,
          uuidCount, pc, call, loc, ret, hist>>

\* locksutil.LockForKey on b.secretIDLocks: the slot of a SecretID HMAC, a
\* fixed hash of the key.  The HMAC of one SecretID is the same under every
\* role, so the entries of one SecretID under two roles share a slot.
secretIDLock(secretIDHMAC) ==
    IF secretIDHMAC \in SecretIDHMACs
    THEN (CHOOSE i \in 1..Cardinality(SecretIDs) :
            createHMAC(HmacKey, "s" \o ToString(i)).hmac = secretIDHMAC) % LockCount
    ELSE 0

\* locksutil.LockForKey on b.secretIDAccessorLocks: the slot of an accessor.
secretIDAccessorLock(secretIDAccessor) == UUIDIndex(secretIDAccessor) % LockCount

NoCall == [op |-> "none", roleName |-> "", secretID |-> "", hmacKey |-> "",
           roleSecretIDPrefix |-> "", secretIDAccessor |-> "",
           secretIDTTL |-> 0, currentTime |-> ZeroTime, maxLeaseTTL |-> 0,
           secretIDCIDRs |-> <<>>, roleBoundCIDRList |-> <<>>]

\* The secretIDStorageEntry a caller hands to registerSecretIDEntry.
NewSecretEntry == [kind |-> "secret", SecretIDAccessor |-> "",
                   SecretIDNumUses |-> 0, SecretIDNumUsesDeprecated |-> 0,
                   SecretIDTTL |-> 0, CreationTime |-> ZeroTime,
                   ExpirationTime |-> ZeroTime, LastUpdatedTime |-> ZeroTime]

\* roleBoundCIDRList is the caller's slice, which the call reads and writes
\* in place.
NoLocals == [roleNameHMAC |-> "", secretIDHMAC |-> "", entry |-> Nil,
             secretEntry |-> Nil, err |-> NoErr, secretIDHMACs |-> <<>>,
             i |-> 0, deleted |-> {}, roleBoundCIDRList |-> <<>>]

NoReturn == [err |-> "none", val |-> Nil]

NoHist == [regOverlap |-> FALSE, flushOverlap |-> FALSE, regDuring |-> {}]

Init ==
    /\ storage = [k \in {} |-> Nil]
    /\ secretIDLocks = [s \in Slots |-> FreeLock]
    /\ secretIDAccessorLocks = [s \in Slots |-> FreeLock]
    /\ secretIDListingLock = FreeLock
    /\ uuidCount = 0
    /\ pc = [p \in Procs |-> "idle"]
    /\ call = [p \in Procs |-> NoCall]
    /\ loc = [p \in Procs |-> NoLocals]
    /\ ret = [p \in Procs |-> NoReturn]
    /\ hist = [p \in Procs |-> NoHist]

\* A call returns: the goroutine is done and holds the returned values.
Return(p, err, val) ==
    /\ pc' = [pc EXCEPT ![p] = "done"]
    /\ ret' = [ret EXCEPT ![p] = [err |-> err, val |-> val]]

Goto(p, label) == pc' = [pc EXCEPT ![p] = label] /\ UNCHANGED ret

Running(q) == pc[q] \notin {"idle", "done"}

\* The goroutines of the pki, ssh, ldap and store calls are interchangeable and are
\* numbered in the order of their calls.
NextToCall(p) == pc[p] = "idle" /\ \A q \in Procs : q < p => pc[q] # "idle"

\* The number of calls of a run of the ssh, ldap and store code, and of a
\* run that is about the SecretIDTTL of a registration.
MaxCalls == 2

\* The goroutines that make these calls.
Callers == {p \in Procs : p <= MaxCalls}

(***************************************************************************)
(* The goroutines are interchangeable, so they are numbered in the order   *)
(* of their calls: by operation, then role, then SecretID or accessor.     *)
(* Every set of concurrent calls still occurs, once instead of once per    *)
(* numbering of its goroutines.                                            *)
(***************************************************************************)
NameIndex(n) ==
    IF n = "" THEN 0
    ELSE IF n \in {OversizedSecretID, OversizedRoleName} THEN 9
    ELSE IF n = LongestSecretID THEN 8
    ELSE IF n = LongSecretID THEN 7
    ELSE CHOOSE i \in 1..6 : n \in {"r" \o ToString(i), "s" \o ToString(i), "uuid" \o ToString(i)}

OpRank(op) == CASE op = "register" -> 1 [] op = "flush" -> 2 [] op = "resolve" -> 3
                   [] op = "delete" -> 4 [] OTHER -> 5

CallKey(c) == OpRank(c.op) * 100000 + NameIndex(c.roleName) * 10000
              + (NameIndex(c.secretID) + NameIndex(c.secretIDAccessor)) * 1000
              + (IF c.hmacKey = "" THEN 0 ELSE 100)
              + (c.secretIDTTL + 5) * 10 + c.currentTime

MayCall(p, c) ==
    /\ pc[p] = "idle"
    /\ \A q \in Procs \ {p} :
          pc[q] # "idle" =>
             IF q < p THEN CallKey(call[q]) <= CallKey(c) ELSE CallKey(c) <= CallKey(call[q])

(***************************************************************************)
(* nonLockedSecretIDStorageEntry: the read of a SecretID entry, with the   *)
(* reconciliation of the deprecated SecretIDNumUses field.                 *)
(***************************************************************************)
\* upgradeSecretIDNumUses of an upgrade that always takes the deprecated
\* field when it is set and differs.
upgradeSecretIDNumUses_DeprecatedWins(result) ==
    IF /\ result.SecretIDNumUsesDeprecated # 0
       /\ result.SecretIDNumUsesDeprecated # result.SecretIDNumUses
    THEN [result EXCEPT !.SecretIDNumUses = result.SecretIDNumUsesDeprecated]
    ELSE result

\* The entry after the upgrade of the deprecated field (the two ifs in turn).
upgradeSecretIDNumUses(result) ==
    LET first == IF /\ result.SecretIDNumUsesDeprecated # 0
                    /\ \/ result.SecretIDNumUses = 0
                       \/ result.SecretIDNumUsesDeprecated < result.SecretIDNumUses
                 THEN [result EXCEPT !.SecretIDNumUses = result.SecretIDNumUsesDeprecated]
                 ELSE result
    IN  IF /\ result.SecretIDNumUsesDeprecated # 0
           /\ first.SecretIDNumUses < first.SecretIDNumUsesDeprecated
        THEN [first EXCEPT !.SecretIDNumUsesDeprecated = first.SecretIDNumUses]
        ELSE first

\* The storage read of nonLockedSecretIDStorageEntry, up to the upgrade's
\* write: the entry it found (upgraded), its error, and whether the entry is
\* to be written back.  fail: s.Get returns an error.
nonLockedSecretIDStorageEntry(s, roleSecretIDPrefix, roleNameHMAC, secretIDHMAC, fail) ==
    IF secretIDHMAC = ""
    THEN [entry |-> Nil, err |-> "missing secret ID HMAC", persistNeeded |-> FALSE]
    ELSE IF roleNameHMAC = ""
    THEN [entry |-> Nil, err |-> "missing role name HMAC", persistNeeded |-> FALSE]
    ELSE IF fail
    THEN [entry |-> Nil, err |-> "storage: get failed", persistNeeded |-> FALSE]
    ELSE LET entry == StorageGet(s, secretIDEntryIndex(roleSecretIDPrefix, roleNameHMAC, secretIDHMAC))
         IN  IF entry = Nil
             THEN [entry |-> Nil, err |-> NoErr, persistNeeded |-> FALSE]
             ELSE [entry |-> upgradeSecretIDNumUses(entry), err |-> NoErr,
                   persistNeeded |-> upgradeSecretIDNumUses(entry) # entry]

\* nonLockedSetSecretIDStorageEntry: the storage after the write, and its error.
nonLockedSetSecretIDStorageEntry(s, roleSecretIDPrefix, roleNameHMAC, secretIDHMAC, secretEntry, fail) ==
    IF roleSecretIDPrefix = "" THEN [storage |-> s, err |-> "missing secret ID prefix"]
    ELSE IF secretIDHMAC = "" THEN [storage |-> s, err |-> "missing secret ID HMAC"]
    ELSE IF roleNameHMAC = "" THEN [storage |-> s, err |-> "missing role name HMAC"]
    ELSE IF secretEntry = Nil THEN [storage |-> s, err |-> "nil secret entry"]
    ELSE IF fail THEN [storage |-> s, err |-> "storage: put failed"]
    ELSE [storage |-> StoragePut(s, secretIDEntryIndex(roleSecretIDPrefix, roleNameHMAC, secretIDHMAC), secretEntry),
          err |-> NoErr]

(***************************************************************************)
(* registerSecretIDEntry                                                   *)
(***************************************************************************)
SameRole(q, roleName) == call[q].roleName = roleName

\* A flush that has listed its role's SecretIDs and has not returned.
Enumerated(q) ==
    call[q].op = "flush" /\ pc[q] \in {"f_lock", "f_delete", "f_unlock", "f_runlock"}

\* The call starts: both HMACs are computed before any lock is taken.
\* secretIDTTL is the SecretIDTTL of the entry the caller hands in, and
\* currentTime what time.Now() returns to this call.
RegisterCallWith(p, roleName, secretID, hmacKey, secretIDTTL, currentTime) ==
    /\ LET c == [NoCall EXCEPT !.op = "register", !.roleName = roleName,
                    !.secretID = secretID, !.hmacKey = hmacKey,
                    !.roleSecretIDPrefix = secretIDPrefix,
                    !.secretIDTTL = secretIDTTL, !.currentTime = currentTime]
       IN  MayCall(p, c) /\ call' = [call EXCEPT ![p] = c]
    /\ hist' = [q \in Procs |->
                 IF q # p /\ Running(q) /\ call[q].op = "flush" /\ SameRole(q, roleName)
                 THEN [hist[q] EXCEPT !.regOverlap = TRUE]
                 ELSE hist[q]]
    /\ LET s == createHMAC(hmacKey, secretID)
           r == createHMAC(hmacKey, roleName)
       IN  IF s.err # NoErr
           THEN Return(p, "failed to create HMAC of secret ID", Nil) /\ UNCHANGED loc
           ELSE IF r.err # NoErr
           THEN Return(p, "failed to create HMAC of role_name", Nil) /\ UNCHANGED loc
           ELSE /\ loc' = [loc EXCEPT ![p] = [NoLocals EXCEPT !.secretIDHMAC = s.hmac,
                               !.roleNameHMAC = r.hmac,
                               !.secretEntry = [NewSecretEntry EXCEPT
                                                  !.SecretIDTTL = secretIDTTL]]]
                /\ Goto(p, "r_rlock")
    /\ UNCHANGED <<storage, secretIDLocks, secretIDAccessorLocks,
                   secretIDListingLock, uuidCount>>

\* A call with a valid key, no TTL asked for, at the first instant.
RegisterCall(p, roleName, secretID) ==
    RegisterCallWith(p, roleName, secretID, HmacKey, 0, 1)

\* lock.RLock()
RegisterRLock(p) ==
    /\ pc[p] = "r_rlock"
    /\ LET slot == secretIDLock(loc[p].secretIDHMAC)
       IN  /\ CanRLock(secretIDLocks[slot])
           /\ secretIDLocks' = [secretIDLocks EXCEPT ![slot] = RLocked(@, p)]
    /\ Goto(p, "r_get1")
    /\ UNCHANGED <<storage, secretIDAccessorLocks, secretIDListingLock,
                   uuidCount, call, loc, hist>>

\* The read of the entry at label here: on to persist when the deprecated
\* field was reconciled, else to next.
RegisterRead(p, fail, here, persist, next) ==
    /\ pc[p] = here
    /\ LET got == nonLockedSecretIDStorageEntry(storage, call[p].roleSecretIDPrefix,
                      loc[p].roleNameHMAC, loc[p].secretIDHMAC, fail)
       IN  /\ loc' = [loc EXCEPT ![p].entry = got.entry, ![p].err = got.err]
           /\ Goto(p, IF got.persistNeeded THEN persist ELSE next)
    /\ UNCHANGED <<storage, secretIDLocks, secretIDAccessorLocks,
                   secretIDListingLock, uuidCount, call, hist>>

\* The write-back of a reconciled entry in nonLockedSecretIDStorageEntry.
RegisterPersist(p, fail, here, next) ==
    /\ pc[p] = here
    /\ LET put == nonLockedSetSecretIDStorageEntry(storage, call[p].roleSecretIDPrefix,
                      loc[p].roleNameHMAC, loc[p].secretIDHMAC, loc[p].entry, fail)
       IN  /\ storage' = put.storage
           /\ loc' = IF put.err # NoErr
                     THEN [loc EXCEPT ![p].entry = Nil,
                                      ![p].err = "failed to upgrade role storage entry"]
                     ELSE loc
    /\ Goto(p, next)
    /\ UNCHANGED <<secretIDLocks, secretIDAccessorLocks, secretIDListingLock, uuidCount, call, hist>>

\* The first check, under the read lock.
RegisterGet1(p, fail) == RegisterRead(p, fail, "r_get1", "r_persist1", "r_runlock")

RegisterPersist1(p, fail) == RegisterPersist(p, fail, "r_persist1", "r_runlock")

\* RegisterRUnlock of a register call that keeps its read lock.
RegisterRUnlock_KeepsReadLock(p) ==
    /\ pc[p] = "r_runlock"
    /\ IF loc[p].err # NoErr
       THEN Return(p, loc[p].err, Nil)
       ELSE IF loc[p].entry # Nil
       THEN Return(p, "SecretID is already registered", Nil)
       ELSE Goto(p, "r_lock")
    /\ UNCHANGED <<storage, secretIDLocks, secretIDAccessorLocks, secretIDListingLock,
                   uuidCount, call, loc, hist>>

\* lock.RUnlock() on each of the three paths after the first check.
RegisterRUnlock(p) ==
    /\ pc[p] = "r_runlock"
    /\ LET slot == secretIDLock(loc[p].secretIDHMAC)
       IN  secretIDLocks' = [secretIDLocks EXCEPT ![slot] = RUnlocked(@, p)]
    /\ IF loc[p].err # NoErr
       THEN Return(p, loc[p].err, Nil)
       ELSE IF loc[p].entry # Nil
       THEN Return(p, "SecretID is already registered", Nil)
       ELSE Goto(p, "r_lock")
    /\ UNCHANGED <<storage, secretIDAccessorLocks, secretIDListingLock,
                   uuidCount, call, loc, hist>>

\* RegisterLock taking the lock in read mode again instead of write mode.
RegisterLock_ReadMode(p) ==
    /\ pc[p] = "r_lock"
    /\ LET slot == secretIDLock(loc[p].secretIDHMAC)
       IN  /\ CanRLock(secretIDLocks[slot])
           /\ secretIDLocks' = [secretIDLocks EXCEPT ![slot] = RLocked(@, p)]
    /\ Goto(p, "r_get2")
    /\ UNCHANGED <<storage, secretIDAccessorLocks, secretIDListingLock,
                   uuidCount, call, loc, hist>>

\* RegisterLock of a register call that takes one lock for every SecretID.
RegisterLock_OneLock(p) ==
    /\ pc[p] = "r_lock"
    /\ CanLock(secretIDLocks[0])
    /\ secretIDLocks' = [secretIDLocks EXCEPT ![0] = Locked(@, p)]
    /\ Goto(p, "r_get2")
    /\ UNCHANGED <<storage, secretIDAccessorLocks, secretIDListingLock,
                   uuidCount, call, loc, hist>>

\* lock.Lock(); defer lock.Unlock()
RegisterLock(p) ==
    /\ pc[p] = "r_lock"
    /\ LET slot == secretIDLock(loc[p].secretIDHMAC)
       IN  /\ CanLock(secretIDLocks[slot])
           /\ secretIDLocks' = [secretIDLocks EXCEPT ![slot] = Locked(@, p)]
    /\ Goto(p, "r_get2")
    /\ UNCHANGED <<storage, secretIDAccessorLocks, secretIDListingLock,
                   uuidCount, call, loc, hist>>

\* RegisterGet2 with the second check left out: the entry is taken to be
\* absent whatever storage holds.
RegisterGet2_NoRecheck(p, fail) ==
    /\ pc[p] = "r_get2"
    /\ loc' = [loc EXCEPT ![p].entry = Nil, ![p].err = NoErr]
    /\ Goto(p, "r_checked")
    /\ UNCHANGED <<storage, secretIDLocks, secretIDAccessorLocks,
                   secretIDListingLock, uuidCount, call, hist>>

\* The second check, under the write lock.
RegisterGet2(p, fail) == RegisterRead(p, fail, "r_get2", "r_persist2", "r_checked")

RegisterPersist2(p, fail) == RegisterPersist(p, fail, "r_persist2", "r_checked")

\* The second check found nothing and returned no error.
MayCreate(p) == pc[p] = "r_checked" /\ loc[p].err = NoErr /\ loc[p].entry = Nil

(***************************************************************************)
(* createSecretIDAccessorEntry, called by registerSecretIDEntry with the   *)
(* SecretID lock held in write mode.                                       *)
(***************************************************************************)
\* deriveSecretIDTTL that takes a TTL of zero for one that was not set.
deriveSecretIDTTL_ZeroClamped(secretIDTTL, maxLeaseTTL) ==
    IF secretIDTTL <= 0 \/ secretIDTTL > maxLeaseTTL
    THEN maxLeaseTTL
    ELSE secretIDTTL

\* deriveSecretIDTTL: the TTL to use, given the mount's max lease TTL.
deriveSecretIDTTL(secretIDTTL, maxLeaseTTL) ==
    IF secretIDTTL < 0 \/ secretIDTTL > maxLeaseTTL
    THEN maxLeaseTTL
    ELSE secretIDTTL

\* StampedEntry that sets the expiration time whatever the TTL is.
StampedEntry_AlwaysExpires(secretEntry, currentTime) ==
    LET ttl == deriveSecretIDTTL(secretEntry.SecretIDTTL, MaxLeaseTTL)
    IN  [secretEntry EXCEPT !.CreationTime = currentTime,
                            !.LastUpdatedTime = currentTime,
                            !.ExpirationTime = currentTime + ttl]

\* The new entry with its times set, as registerSecretIDEntry sets them
\* between the second check and the call of createSecretIDAccessorEntry.
StampedEntry(secretEntry, currentTime) ==
    LET ttl == deriveSecretIDTTL(secretEntry.SecretIDTTL, MaxLeaseTTL)
    IN  [secretEntry EXCEPT !.CreationTime = currentTime,
                            !.LastUpdatedTime = currentTime,
                            !.ExpirationTime = IF ttl # 0 THEN currentTime + ttl ELSE @]

\* uuid.GenerateUUID or b.Salt returns an error.
CreateAccessorFail(p) ==
    /\ MayCreate(p)
    /\ loc' = [loc EXCEPT ![p].err = "failed to generate accessor",
                          ![p].secretEntry = StampedEntry(@, call[p].currentTime)]
    /\ Goto(p, "r_unlock")
    /\ UNCHANGED <<storage, secretIDLocks, secretIDAccessorLocks,
                   secretIDListingLock, uuidCount, call, hist>>

\* CreateAccessorLock with an accessor that is not fresh: every call gets
\* the same UUID.
CreateAccessorLock_SameUUID(p) ==
    /\ MayCreate(p)
    /\ uuidCount < MaxUUIDs
    /\ LET accessorUUID == UUIDs[1]
           slot == secretIDAccessorLock(accessorUUID)
       IN  /\ CanLock(secretIDAccessorLocks[slot])
           /\ secretIDAccessorLocks' = [secretIDAccessorLocks EXCEPT ![slot] = Locked(@, p)]
           /\ loc' = [loc EXCEPT ![p].secretEntry =
                              [StampedEntry(@, call[p].currentTime) EXCEPT
                                 !.SecretIDAccessor = accessorUUID]]
    /\ uuidCount' = uuidCount + 1
    /\ Goto(p, "c_put")
    /\ UNCHANGED <<storage, secretIDLocks, secretIDListingLock, call, hist>>

\* entry.SecretIDAccessor = accessorUUID; accessorLock.Lock()
CreateAccessorLock(p) ==
    /\ MayCreate(p)
    /\ uuidCount < MaxUUIDs
    /\ LET accessorUUID == UUIDs[uuidCount + 1]
           slot == secretIDAccessorLock(accessorUUID)
       IN  /\ CanLock(secretIDAccessorLocks[slot])
           /\ secretIDAccessorLocks' = [secretIDAccessorLocks EXCEPT ![slot] = Locked(@, p)]
           /\ loc' = [loc EXCEPT ![p].secretEntry =
                              [StampedEntry(@, call[p].currentTime) EXCEPT
                                 !.SecretIDAccessor = accessorUUID]]
    /\ uuidCount' = uuidCount + 1
    /\ Goto(p, "c_put")
    /\ UNCHANGED <<storage, secretIDLocks, secretIDListingLock, call, hist>>

\* s.Put of the accessor entry {SecretIDHMAC: secretIDHMAC}
CreateAccessorPut(p, fail) ==
    /\ pc[p] = "c_put"
    /\ IF fail
       THEN /\ loc' = [loc EXCEPT ![p].err = "failed to persist accessor index entry"]
            /\ UNCHANGED storage
       ELSE /\ storage' = StoragePut(storage,
                              accessorEntryIndex(call[p].roleSecretIDPrefix,
                                                 loc[p].secretEntry.SecretIDAccessor),
                              [kind |-> "accessor", SecretIDHMAC |-> loc[p].secretIDHMAC])
            /\ UNCHANGED loc
    /\ Goto(p, "c_unlock")
    /\ UNCHANGED <<secretIDLocks, secretIDAccessorLocks, secretIDListingLock, uuidCount, call, hist>>

\* CreateAccessorUnlock with the caller ignoring the error returned.
CreateAccessorUnlock_ErrorIgnored(p) ==
    /\ pc[p] = "c_unlock"
    /\ LET slot == secretIDAccessorLock(loc[p].secretEntry.SecretIDAccessor)
       IN  secretIDAccessorLocks' = [secretIDAccessorLocks EXCEPT ![slot] = Unlocked(@, p)]
    /\ loc' = [loc EXCEPT ![p].err = NoErr]
    /\ Goto(p, "r_put")
    /\ UNCHANGED <<storage, secretIDLocks, secretIDListingLock,
                   uuidCount, call, hist>>

\* The deferred accessorLock.Unlock(), and the return to the caller.
CreateAccessorUnlock(p) ==
    /\ pc[p] = "c_unlock"
    /\ LET slot == secretIDAccessorLock(loc[p].secretEntry.SecretIDAccessor)
       IN  secretIDAccessorLocks' = [secretIDAccessorLocks EXCEPT ![slot] = Unlocked(@, p)]
    /\ Goto(p, IF loc[p].err # NoErr THEN "r_unlock" ELSE "r_put")
    /\ UNCHANGED <<storage, secretIDLocks, secretIDListingLock,
                   uuidCount, call, loc, hist>>

\* RegisterPut of a register call that writes the entry again when the
\* write has failed.
RegisterPut_Retried(p, fail) ==
    /\ pc[p] = "r_put"
    /\ LET put == nonLockedSetSecretIDStorageEntry(storage, call[p].roleSecretIDPrefix,
                      loc[p].roleNameHMAC, loc[p].secretIDHMAC, loc[p].secretEntry, FALSE)
       IN  /\ storage' = put.storage
           /\ loc' = [loc EXCEPT ![p].err = put.err]
           /\ hist' = [q \in Procs |->
                        IF put.err = NoErr /\ Enumerated(q) /\ SameRole(q, call[p].roleName)
                        THEN [hist[q] EXCEPT !.regDuring = @ \cup {loc[p].secretIDHMAC}]
                        ELSE hist[q]]
    /\ Goto(p, "r_unlock")
    /\ UNCHANGED <<secretIDLocks, secretIDAccessorLocks, secretIDListingLock, uuidCount, call>>

\* RegisterPut of a register call that deletes the accessor entry it has
\* created when the write of the SecretID entry fails.
RegisterPut_RollsBack(p, fail) ==
    /\ pc[p] = "r_put"
    /\ LET put == nonLockedSetSecretIDStorageEntry(storage, call[p].roleSecretIDPrefix,
                      loc[p].roleNameHMAC, loc[p].secretIDHMAC, loc[p].secretEntry, fail)
       IN  /\ storage' = IF put.err # NoErr
                         THEN StorageDelete(storage,
                                  accessorEntryIndex(call[p].roleSecretIDPrefix,
                                                     loc[p].secretEntry.SecretIDAccessor))
                         ELSE put.storage
           /\ loc' = [loc EXCEPT ![p].err = put.err]
           /\ hist' = [q \in Procs |->
                        IF put.err = NoErr /\ Enumerated(q) /\ SameRole(q, call[p].roleName)
                        THEN [hist[q] EXCEPT !.regDuring = @ \cup {loc[p].secretIDHMAC}]
                        ELSE hist[q]]
    /\ Goto(p, "r_unlock")
    /\ UNCHANGED <<secretIDLocks, secretIDAccessorLocks, secretIDListingLock, uuidCount, call>>

\* nonLockedSetSecretIDStorageEntry of the new entry.
RegisterPut(p, fail) ==
    /\ pc[p] = "r_put"
    /\ LET put == nonLockedSetSecretIDStorageEntry(storage, call[p].roleSecretIDPrefix,
                      loc[p].roleNameHMAC, loc[p].secretIDHMAC, loc[p].secretEntry, fail)
       IN  /\ storage' = put.storage
           /\ loc' = [loc EXCEPT ![p].err = put.err]
           /\ hist' = [q \in Procs |->
                        IF put.err = NoErr /\ Enumerated(q) /\ SameRole(q, call[p].roleName)
                        THEN [hist[q] EXCEPT !.regDuring = @ \cup {loc[p].secretIDHMAC}]
                        ELSE hist[q]]
    /\ Goto(p, "r_unlock")
    /\ UNCHANGED <<secretIDLocks, secretIDAccessorLocks, secretIDListingLock, uuidCount, call>>

\* The deferred lock.Unlock(), and the return: the error of the path taken,
\* or the entry registered.
\* RegisterUnlock of a call that returns without releasing the write lock.
RegisterUnlock_LockKept(p) ==
    /\ \/ pc[p] = "r_unlock"
       \/ pc[p] = "r_checked" /\ ~MayCreate(p)
    /\ IF loc[p].err # NoErr
       THEN Return(p, loc[p].err, Nil)
       ELSE IF pc[p] = "r_checked"
       THEN Return(p, "SecretID is already registered", Nil)
       ELSE Return(p, NoErr, loc[p].secretEntry)
    /\ UNCHANGED <<storage, secretIDLocks, secretIDAccessorLocks, secretIDListingLock,
                   uuidCount, call, loc, hist>>

RegisterUnlock(p) ==
    /\ \/ pc[p] = "r_unlock"
       \/ pc[p] = "r_checked" /\ ~MayCreate(p)
    /\ LET slot == secretIDLock(loc[p].secretIDHMAC)
       IN  secretIDLocks' = [secretIDLocks EXCEPT ![slot] = Unlocked(@, p)]
    /\ IF loc[p].err # NoErr
       THEN Return(p, loc[p].err, Nil)
       ELSE IF pc[p] = "r_checked"
       THEN Return(p, "SecretID is already registered", Nil)
       ELSE Return(p, NoErr, loc[p].secretEntry)
    /\ UNCHANGED <<storage, secretIDAccessorLocks, secretIDListingLock,
                   uuidCount, call, loc, hist>>

(***************************************************************************)
(* flushRoleSecrets                                                        *)
(***************************************************************************)
\* s.List returns the child keys in lexical order.
ListOrder == <<createHMAC(HmacKey, "s1").hmac, createHMAC(HmacKey, "s2").hmac>>

StorageList(s, roleSecretIDPrefix, roleNameHMAC) ==
    LET Present(h) == secretIDEntryIndex(roleSecretIDPrefix, roleNameHMAC, h) \in DOMAIN s
    IN  SelectSeq(ListOrder, Present)

FlushCall(p, roleName) ==
    /\ LET c == [NoCall EXCEPT !.op = "flush", !.roleName = roleName,
                    !.hmacKey = HmacKey, !.roleSecretIDPrefix = secretIDPrefix]
       IN  MayCall(p, c) /\ call' = [call EXCEPT ![p] = c]
    /\ LET others == {q \in Procs \ {p} : Running(q) /\ SameRole(q, roleName)}
       IN  hist' = [q \in Procs |->
                     IF q = p
                     THEN [NoHist EXCEPT
                             !.regOverlap = \E o \in others : call[o].op = "register",
                             !.flushOverlap = \E o \in others : call[o].op = "flush"]
                     ELSE IF q \in others /\ call[q].op = "flush"
                     THEN [hist[q] EXCEPT !.flushOverlap = TRUE]
                     ELSE hist[q]]
    /\ LET r == createHMAC(HmacKey, roleName)
       IN  IF r.err # NoErr
           THEN Return(p, "failed to create HMAC of role_name", Nil) /\ UNCHANGED loc
           ELSE /\ loc' = [loc EXCEPT ![p] = [NoLocals EXCEPT !.roleNameHMAC = r.hmac]]
                /\ Goto(p, "f_rlock")
    /\ UNCHANGED <<storage, secretIDLocks, secretIDAccessorLocks,
                   secretIDListingLock, uuidCount>>

\* b.secretIDListingLock.RLock(); defer b.secretIDListingLock.RUnlock()
FlushRLock(p) ==
    /\ pc[p] = "f_rlock"
    /\ CanRLock(secretIDListingLock)
    /\ secretIDListingLock' = RLocked(secretIDListingLock, p)
    /\ Goto(p, "f_list")
    /\ UNCHANGED <<storage, secretIDLocks, secretIDAccessorLocks,
                   uuidCount, call, loc, hist>>

\* FlushList of a flush whose s.List returns the first key only.
FlushList_FirstKeyOnly(p, fail) ==
    /\ pc[p] = "f_list"
    /\ IF fail
       THEN /\ loc' = [loc EXCEPT ![p].err = "storage: list failed"]
            /\ Goto(p, "f_runlock")
       ELSE LET all == StorageList(storage, call[p].roleSecretIDPrefix, loc[p].roleNameHMAC)
                keys == IF all = <<>> THEN all ELSE <<all[1]>>
            IN  /\ loc' = [loc EXCEPT ![p].secretIDHMACs = keys, ![p].i = 1]
                /\ Goto(p, IF keys = <<>> THEN "f_runlock" ELSE "f_lock")
    /\ UNCHANGED <<storage, secretIDLocks, secretIDAccessorLocks,
                   secretIDListingLock, uuidCount, call, hist>>

\* s.List of the role's prefix; the loop is entered when it returned a key.
FlushList(p, fail) ==
    /\ pc[p] = "f_list"
    /\ IF fail
       THEN /\ loc' = [loc EXCEPT ![p].err = "storage: list failed"]
            /\ Goto(p, "f_runlock")
       ELSE LET keys == StorageList(storage, call[p].roleSecretIDPrefix, loc[p].roleNameHMAC)
            IN  /\ loc' = [loc EXCEPT ![p].secretIDHMACs = keys, ![p].i = 1]
                /\ Goto(p, IF keys = <<>> THEN "f_runlock" ELSE "f_lock")
    /\ UNCHANGED <<storage, secretIDLocks, secretIDAccessorLocks,
                   secretIDListingLock, uuidCount, call, hist>>

\* FlushLock that does not wait for the SecretID lock to be free.
FlushLock_NoWait(p) ==
    /\ pc[p] = "f_lock"
    /\ LET slot == secretIDLock(loc[p].secretIDHMACs[loc[p].i])
       IN  secretIDLocks' = [secretIDLocks EXCEPT ![slot] = Locked(@, p)]
    /\ Goto(p, "f_delete")
    /\ UNCHANGED <<storage, secretIDAccessorLocks, secretIDListingLock,
                   uuidCount, call, loc, hist>>

\* lock := b.secretIDLock(secretIDHMAC); lock.Lock()
FlushLock(p) ==
    /\ pc[p] = "f_lock"
    /\ LET slot == secretIDLock(loc[p].secretIDHMACs[loc[p].i])
       IN  /\ CanLock(secretIDLocks[slot])
           /\ secretIDLocks' = [secretIDLocks EXCEPT ![slot] = Locked(@, p)]
    /\ Goto(p, "f_delete")
    /\ UNCHANGED <<storage, secretIDAccessorLocks, secretIDListingLock,
                   uuidCount, call, loc, hist>>

\* FlushDelete that deletes the accessor entry of the SecretID entry too.
FlushDelete_WithAccessor(p, fail) ==
    /\ pc[p] = "f_delete"
    /\ LET secretIDHMAC == loc[p].secretIDHMACs[loc[p].i]
           entryIndex == secretIDEntryIndex(call[p].roleSecretIDPrefix,
                                            loc[p].roleNameHMAC, secretIDHMAC)
           entry == StorageGet(storage, entryIndex)
       IN  IF fail
           THEN /\ loc' = [loc EXCEPT ![p].err = "error deleting SecretID from storage"]
                /\ UNCHANGED storage
           ELSE /\ storage' =
                     IF entry = Nil THEN storage
                     ELSE StorageDelete(StorageDelete(storage, entryIndex),
                              accessorEntryIndex(call[p].roleSecretIDPrefix,
                                                 entry.SecretIDAccessor))
                /\ loc' = [loc EXCEPT ![p].deleted = @ \cup {secretIDHMAC}]
    /\ Goto(p, "f_unlock")
    /\ UNCHANGED <<secretIDLocks, secretIDAccessorLocks, secretIDListingLock,
                   uuidCount, call, hist>>

\* FlushDelete that deletes the entry of the key under every role.
FlushDelete_EveryRole(p, fail) ==
    /\ pc[p] = "f_delete"
    /\ LET secretIDHMAC == loc[p].secretIDHMACs[loc[p].i]
       IN  IF fail
           THEN /\ loc' = [loc EXCEPT ![p].err = "error deleting SecretID from storage"]
                /\ UNCHANGED storage
           ELSE /\ storage' = [k \in {x \in DOMAIN storage :
                                        ~(Len(x) = 3 /\ x[3] = secretIDHMAC)} |-> storage[k]]
                /\ loc' = [loc EXCEPT ![p].deleted = @ \cup {secretIDHMAC}]
    /\ Goto(p, "f_unlock")
    /\ UNCHANGED <<secretIDLocks, secretIDAccessorLocks, secretIDListingLock,
                   uuidCount, call, hist>>

\* s.Delete of the entry of the current key.  deleted records the keys this
\* call has deleted.
FlushDelete(p, fail) ==
    /\ pc[p] = "f_delete"
    /\ LET secretIDHMAC == loc[p].secretIDHMACs[loc[p].i]
           entryIndex == secretIDEntryIndex(call[p].roleSecretIDPrefix,
                                            loc[p].roleNameHMAC, secretIDHMAC)
       IN  IF fail
           THEN /\ loc' = [loc EXCEPT ![p].err = "error deleting SecretID from storage"]
                /\ UNCHANGED storage
           ELSE /\ storage' = StorageDelete(storage, entryIndex)
                /\ loc' = [loc EXCEPT ![p].deleted = @ \cup {secretIDHMAC}]
    /\ Goto(p, "f_unlock")
    /\ UNCHANGED <<secretIDLocks, secretIDAccessorLocks, secretIDListingLock, uuidCount, call, hist>>

\* FlushUnlock of a flush that lists the role's keys again after every
\* delete, until none is left.
FlushUnlock_ListsAgain(p) ==
    /\ pc[p] = "f_unlock"
    /\ LET slot == secretIDLock(loc[p].secretIDHMACs[loc[p].i])
       IN  secretIDLocks' = [secretIDLocks EXCEPT ![slot] = Unlocked(@, p)]
    /\ IF loc[p].err # NoErr
       THEN Goto(p, "f_runlock") /\ UNCHANGED loc
       ELSE LET keys == StorageList(storage, call[p].roleSecretIDPrefix, loc[p].roleNameHMAC)
            IN  /\ loc' = [loc EXCEPT ![p].secretIDHMACs = keys, ![p].i = 1]
                /\ Goto(p, IF keys = <<>> THEN "f_runlock" ELSE "f_lock")
    /\ UNCHANGED <<storage, secretIDAccessorLocks, secretIDListingLock,
                   uuidCount, call, hist>>

\* FlushUnlock of a flush that returns after the first key.
FlushUnlock_ReturnsAfterFirst(p) ==
    /\ pc[p] = "f_unlock"
    /\ LET slot == secretIDLock(loc[p].secretIDHMACs[loc[p].i])
       IN  secretIDLocks' = [secretIDLocks EXCEPT ![slot] = Unlocked(@, p)]
    /\ Goto(p, "f_runlock")
    /\ UNCHANGED <<storage, secretIDAccessorLocks, secretIDListingLock,
                   uuidCount, call, loc, hist>>

\* FlushUnlock of a flush that keeps the error of a failed delete for its
\* return and goes on with the next key.
FlushUnlock_GoesOnAfterError(p) ==
    /\ pc[p] = "f_unlock"
    /\ LET slot == secretIDLock(loc[p].secretIDHMACs[loc[p].i])
       IN  secretIDLocks' = [secretIDLocks EXCEPT ![slot] = Unlocked(@, p)]
    /\ loc' = [loc EXCEPT ![p].i = @ + 1]
    /\ Goto(p, IF loc[p].i < Len(loc[p].secretIDHMACs) THEN "f_lock" ELSE "f_runlock")
    /\ UNCHANGED <<storage, secretIDAccessorLocks, secretIDListingLock,
                   uuidCount, call, hist>>

\* lock.Unlock(): before the return on an error, else at the end of the loop
\* body, which goes on to the next key.
FlushUnlock(p) ==
    /\ pc[p] = "f_unlock"
    /\ LET slot == secretIDLock(loc[p].secretIDHMACs[loc[p].i])
       IN  secretIDLocks' = [secretIDLocks EXCEPT ![slot] = Unlocked(@, p)]
    /\ IF loc[p].err # NoErr
       THEN Goto(p, "f_runlock") /\ UNCHANGED loc
       ELSE /\ loc' = [loc EXCEPT ![p].i = @ + 1]
            /\ Goto(p, IF loc[p].i < Len(loc[p].secretIDHMACs) THEN "f_lock" ELSE "f_runlock")
    /\ UNCHANGED <<storage, secretIDAccessorLocks, secretIDListingLock,
                   uuidCount, call, hist>>

\* FlushRUnlock of a flush that returns nil whatever happened.
FlushRUnlock_ErrorDropped(p) ==
    /\ pc[p] = "f_runlock"
    /\ secretIDListingLock' = RUnlocked(secretIDListingLock, p)
    /\ Return(p, NoErr, Nil)
    /\ UNCHANGED <<storage, secretIDLocks, secretIDAccessorLocks,
                   uuidCount, call, loc, hist>>

\* The deferred RUnlock of the listing lock, and the return.
FlushRUnlock(p) ==
    /\ pc[p] = "f_runlock"
    /\ secretIDListingLock' = RUnlocked(secretIDListingLock, p)
    /\ Return(p, loc[p].err, Nil)
    /\ UNCHANGED <<storage, secretIDLocks, secretIDAccessorLocks,
                   uuidCount, call, loc, hist>>

(***************************************************************************)
(* secretIDAccessorEntry                                                   *)
(***************************************************************************)
\* The accessors a caller may ask for.
AccessorInputs == {UUIDs[i] : i \in 1..MaxUUIDs}

\* fail: b.Salt returns an error.
ResolveCall(p, secretIDAccessor, fail) ==
    /\ LET c == [NoCall EXCEPT !.op = "resolve",
                    !.secretIDAccessor = secretIDAccessor,
                    !.roleSecretIDPrefix = secretIDPrefix]
       IN  MayCall(p, c) /\ call' = [call EXCEPT ![p] = c]
    /\ IF secretIDAccessor = ""
       THEN Return(p, "missing secretIDAccessor", Nil)
       ELSE IF fail
       THEN Return(p, "salt failed", Nil)
       ELSE Goto(p, "a_rlock")
    /\ UNCHANGED <<storage, secretIDLocks, secretIDAccessorLocks,
                   secretIDListingLock, uuidCount, loc, hist>>

\* accessorLock.RLock(); defer accessorLock.RUnlock()
ResolveRLock(p) ==
    /\ pc[p] = "a_rlock"
    /\ LET slot == secretIDAccessorLock(call[p].secretIDAccessor)
       IN  /\ CanRLock(secretIDAccessorLocks[slot])
           /\ secretIDAccessorLocks' = [secretIDAccessorLocks EXCEPT ![slot] = RLocked(@, p)]
    /\ Goto(p, "a_get")
    /\ UNCHANGED <<storage, secretIDLocks, secretIDListingLock,
                   uuidCount, call, loc, hist>>

\* ResolveGet that reads under the accessor itself, not under its salted hash.
ResolveGet_Unsalted(p, fail) ==
    /\ pc[p] = "a_get"
    /\ loc' = IF fail
              THEN [loc EXCEPT ![p].err = "storage: get failed"]
              ELSE [loc EXCEPT ![p].entry =
                       StorageGet(storage, <<secretIDAccessorPrefix, call[p].secretIDAccessor>>)]
    /\ Goto(p, "a_runlock")
    /\ UNCHANGED <<storage, secretIDLocks, secretIDAccessorLocks,
                   secretIDListingLock, uuidCount, call, hist>>

\* s.Get of the accessor entry.
ResolveGet(p, fail) ==
    /\ pc[p] = "a_get"
    /\ loc' = IF fail
              THEN [loc EXCEPT ![p].err = "storage: get failed"]
              ELSE [loc EXCEPT ![p].entry =
                       StorageGet(storage, accessorEntryIndex(call[p].roleSecretIDPrefix,
                                                              call[p].secretIDAccessor))]
    /\ Goto(p, "a_runlock")
    /\ UNCHANGED <<storage, secretIDLocks, secretIDAccessorLocks,
                   secretIDListingLock, uuidCount, call, hist>>

\* ResolveRUnlock of a lookup that returns an error without RUnlock.
ResolveRUnlock_LeaksOnError(p) ==
    /\ pc[p] = "a_runlock"
    /\ LET slot == secretIDAccessorLock(call[p].secretIDAccessor)
       IN  secretIDAccessorLocks' =
              IF loc[p].err # NoErr THEN secretIDAccessorLocks
              ELSE [secretIDAccessorLocks EXCEPT ![slot] = RUnlocked(@, p)]
    /\ Return(p, loc[p].err, loc[p].entry)
    /\ UNCHANGED <<storage, secretIDLocks, secretIDListingLock,
                   uuidCount, call, loc, hist>>

\* The deferred RUnlock, and the return of the entry found (nil: not found).
ResolveRUnlock(p) ==
    /\ pc[p] = "a_runlock"
    /\ LET slot == secretIDAccessorLock(call[p].secretIDAccessor)
       IN  secretIDAccessorLocks' = [secretIDAccessorLocks EXCEPT ![slot] = RUnlocked(@, p)]
    /\ Return(p, loc[p].err, loc[p].entry)
    /\ UNCHANGED <<storage, secretIDLocks, secretIDListingLock,
                   uuidCount, call, loc, hist>>

(***************************************************************************)
(* deleteSecretIDAccessorEntry                                             *)
(***************************************************************************)
\* fail: b.Salt returns an error.
DeleteAccessorCall(p, secretIDAccessor, fail) ==
    /\ LET c == [NoCall EXCEPT !.op = "delete",
                    !.secretIDAccessor = secretIDAccessor,
                    !.roleSecretIDPrefix = secretIDPrefix]
       IN  MayCall(p, c) /\ call' = [call EXCEPT ![p] = c]
    /\ IF fail
       THEN Return(p, "salt failed", Nil)
       ELSE Goto(p, "d_lock")
    /\ UNCHANGED <<storage, secretIDLocks, secretIDAccessorLocks,
                   secretIDListingLock, uuidCount, loc, hist>>

\* accessorLock.Lock(); defer accessorLock.Unlock()
DeleteAccessorLock(p) ==
    /\ pc[p] = "d_lock"
    /\ LET slot == secretIDAccessorLock(call[p].secretIDAccessor)
       IN  /\ CanLock(secretIDAccessorLocks[slot])
           /\ secretIDAccessorLocks' = [secretIDAccessorLocks EXCEPT ![slot] = Locked(@, p)]
    /\ Goto(p, "d_delete")
    /\ UNCHANGED <<storage, secretIDLocks, secretIDListingLock,
                   uuidCount, call, loc, hist>>

\* DeleteAccessorDelete of a deletion that takes a missing entry for an error.
DeleteAccessorDelete_MissingIsError(p, fail) ==
    /\ pc[p] = "d_delete"
    /\ LET entryIndex == accessorEntryIndex(call[p].roleSecretIDPrefix,
                                            call[p].secretIDAccessor)
       IN  IF fail \/ entryIndex \notin DOMAIN storage
           THEN /\ loc' = [loc EXCEPT ![p].err = "failed to delete accessor storage entry"]
                /\ UNCHANGED storage
           ELSE /\ storage' = StorageDelete(storage, entryIndex)
                /\ UNCHANGED loc
    /\ Goto(p, "d_unlock")
    /\ UNCHANGED <<secretIDLocks, secretIDAccessorLocks, secretIDListingLock,
                   uuidCount, call, hist>>

\* s.Delete of the accessor entry.
DeleteAccessorDelete(p, fail) ==
    /\ pc[p] = "d_delete"
    /\ IF fail
       THEN /\ loc' = [loc EXCEPT ![p].err = "failed to delete accessor storage entry"]
            /\ UNCHANGED storage
       ELSE /\ storage' = StorageDelete(storage,
                              accessorEntryIndex(call[p].roleSecretIDPrefix,
                                                 call[p].secretIDAccessor))
            /\ UNCHANGED loc
    /\ Goto(p, "d_unlock")
    /\ UNCHANGED <<secretIDLocks, secretIDAccessorLocks, secretIDListingLock,
                   uuidCount, call, hist>>

\* The deferred accessorLock.Unlock(), and the return.
DeleteAccessorUnlock(p) ==
    /\ pc[p] = "d_unlock"
    /\ LET slot == secretIDAccessorLock(call[p].secretIDAccessor)
       IN  secretIDAccessorLocks' = [secretIDAccessorLocks EXCEPT ![slot] = Unlocked(@, p)]
    /\ Return(p, loc[p].err, Nil)
    /\ UNCHANGED <<storage, secretIDLocks, secretIDListingLock,
                   uuidCount, call, loc, hist>>

(***************************************************************************)
(* verifyCIDRRoleSecretIDSubset                                            *)
(***************************************************************************)
\* A CIDR block string: its address, whether it has a "/", and the mask
\* length written after it.
Block(ip, mask) == [ip |-> ip, slash |-> TRUE, mask |-> mask]
Address(ip) == [ip |-> ip, slash |-> FALSE, mask |-> 0]

RECURSIVE Pow2(_)
Pow2(n) == IF n = 0 THEN 1 ELSE 2 * Pow2(n - 1)

\* The first maskLen bits of the two addresses are the same.
SamePrefix(ip1, ip2, maskLen) ==
    \A i \in 1..4 :
        LET rest == maskLen - 8 * (i - 1)
            bits == IF rest < 0 THEN 0 ELSE IF rest > 8 THEN 8 ELSE rest
        IN  ip1[i] \div Pow2(8 - bits) = ip2[i] \div Pow2(8 - bits)

\* The upper half of the range ip/maskLen: the bit after the mask is set.
UpperHalf(ip, maskLen) ==
    [ip EXCEPT ![(maskLen \div 8) + 1] = @ + Pow2(7 - (maskLen % 8))]

\* The range ip/maskLen lies within the union of the ranges of the blocks:
\* within one of them, or both its halves do.
RECURSIVE Covered(_, _, _)
Covered(ip, maskLen, blocks) ==
    \/ \E b \in blocks : b.mask <= maskLen /\ SamePrefix(b.ip, ip, b.mask)
    \/ /\ maskLen < 32
       /\ \E b \in blocks : b.mask > maskLen /\ SamePrefix(b.ip, ip, maskLen)
       /\ Covered(ip, maskLen + 1, blocks)
       /\ Covered(UpperHalf(ip, maskLen), maskLen + 1, blocks)

\* cidrutil.SubsetBlocks(cidrBlocks1, cidrBlocks2): whether every block of
\* the second list lies within the ranges of the first.  It parses both
\* lists as CIDR blocks, and a string with no "/" is not one: this is why
\* its caller appends "/32" to such strings.
SubsetBlocks(cidrBlocks1, cidrBlocks2) ==
    LET blocks1 == {cidrBlocks1[i] : i \in 1..Len(cidrBlocks1)}
        blocks2 == {cidrBlocks2[i] : i \in 1..Len(cidrBlocks2)}
    IN  IF \E b \in blocks1 \cup blocks2 : ~b.slash
        THEN [subset |-> FALSE, err |-> "invalid CIDR address"]
        ELSE [subset |-> \A b \in blocks2 : Covered(b.ip, b.mask, blocks1),
              err |-> NoErr]

CIDRNotSubset ==
    "failed to verify subset relationship between CIDR blocks on the role and CIDR blocks on the secret ID"

\* What a call of verifyCIDRRoleSecretIDSubset returns besides its error:
\* whether it evaluated the subset relationship.
Verified(evaluated) == [kind |-> "verify", evaluated |-> evaluated]

\* VerifyStart of a call that skips the check only for an empty role list.
VerifyStart_RoleListOnly(p) ==
    /\ pc[p] = "v_check"
    /\ IF Len(loc[p].roleBoundCIDRList) # 0
       THEN /\ loc' = [loc EXCEPT ![p].i = 1]
            /\ Goto(p, "v_loop")
       ELSE /\ Return(p, NoErr, Verified(FALSE))
            /\ UNCHANGED loc
    /\ UNCHANGED <<storage, secretIDLocks, secretIDAccessorLocks,
                   secretIDListingLock, uuidCount, call, hist>>

\* The two length tests: with either list empty the call returns nil.
VerifyStart(p) ==
    /\ pc[p] = "v_check"
    /\ IF Len(call[p].secretIDCIDRs) # 0 /\ Len(loc[p].roleBoundCIDRList) # 0
       THEN /\ loc' = [loc EXCEPT ![p].i = 1]
            /\ Goto(p, "v_loop")
       ELSE /\ Return(p, NoErr, Verified(FALSE))
            /\ UNCHANGED loc
    /\ UNCHANGED <<storage, secretIDLocks, secretIDAccessorLocks,
                   secretIDListingLock, uuidCount, call, hist>>

\* VerifyNormalize of a call that leaves the role's blocks as they are.
VerifyNormalize_Skipped(p) ==
    /\ pc[p] = "v_loop"
    /\ loc' = [loc EXCEPT ![p].i = @ + 1]
    /\ Goto(p, IF loc[p].i = Len(loc[p].roleBoundCIDRList) THEN "v_subset" ELSE "v_loop")
    /\ UNCHANGED <<storage, secretIDLocks, secretIDAccessorLocks,
                   secretIDListingLock, uuidCount, call, hist>>

\* One turn of the loop over roleBoundCIDRList: a block with no "/" is
\* replaced, in the caller's slice, by fmt.Sprint(block, "/32").
VerifyNormalize(p) ==
    /\ pc[p] = "v_loop"
    /\ LET i == loc[p].i
           block == loc[p].roleBoundCIDRList[i]
       IN  loc' = [loc EXCEPT ![p].i = i + 1,
                              ![p].roleBoundCIDRList =
                                  IF ~block.slash
                                  THEN [@ EXCEPT ![i] = Block(block.ip, 32)]
                                  ELSE @]
    /\ Goto(p, IF loc[p].i = Len(loc[p].roleBoundCIDRList) THEN "v_subset" ELSE "v_loop")
    /\ UNCHANGED <<storage, secretIDLocks, secretIDAccessorLocks,
                   secretIDListingLock, uuidCount, call, hist>>

\* cidrutil.SubsetBlocks and the return.
VerifySubset(p) ==
    /\ pc[p] = "v_subset"
    /\ LET got == SubsetBlocks(loc[p].roleBoundCIDRList, call[p].secretIDCIDRs)
       IN  Return(p, IF ~got.subset \/ got.err # NoErr THEN CIDRNotSubset ELSE NoErr,
                  Verified(TRUE))
    /\ UNCHANGED <<storage, secretIDLocks, secretIDAccessorLocks,
                   secretIDListingLock, uuidCount, call, loc, hist>>

\* The blocks the lists are made of: an address with no mask, the same
\* address as a /32 block, a /24 block that holds it and one that does not.
CIDRBlocks == {Address(<<10, 0, 0, 1>>), Block(<<10, 0, 0, 1>>, 32),
               Block(<<10, 0, 0, 0>>, 24), Block(<<192, 168, 0, 0>>, 24)}

\* The lists of secretIDCIDRs and of roleBoundCIDRList: up to two blocks.
CIDRLists == {<<>>} \cup {<<b>> : b \in CIDRBlocks}
                    \cup {<<b, c>> : b \in CIDRBlocks, c \in CIDRBlocks}

\* The first goroutine has called verifyCIDRRoleSecretIDSubset: the
\* function takes no lock and touches no storage, so one call shows it all.
InitCIDR ==
    /\ storage = [k \in {} |-> Nil]
    /\ secretIDLocks = [s \in Slots |-> FreeLock]
    /\ secretIDAccessorLocks = [s \in Slots |-> FreeLock]
    /\ secretIDListingLock = FreeLock
    /\ uuidCount = 0
    /\ \E secretIDCIDRs \in CIDRLists, roleBoundCIDRList \in CIDRLists :
          /\ call = [p \in Procs |->
                       IF p = 1
                       THEN [NoCall EXCEPT !.op = "verify",
                                !.secretIDCIDRs = secretIDCIDRs,
                                !.roleBoundCIDRList = roleBoundCIDRList]
                       ELSE NoCall]
          /\ loc = [p \in Procs |->
                      IF p = 1
                      THEN [NoLocals EXCEPT !.roleBoundCIDRList = roleBoundCIDRList]
                      ELSE NoLocals]
    /\ pc = [p \in Procs |-> IF p = 1 THEN "v_check" ELSE "idle"]
    /\ ret = [p \in Procs |-> NoReturn]
    /\ hist = [p \in Procs |-> NoHist]

NextCIDR == \E p \in Procs : VerifyStart(p) \/ VerifyNormalize(p) \/ VerifySubset(p)

SpecCIDR == InitCIDR /\ [][NextCIDR]_vars

(***************************************************************************)
(* pki: the CEL roles (path_cel.go).  The storage is that of the pki mount, *)
(* and every handler makes at most one storage call, so a handler is one   *)
(* step.                                                                   *)
(***************************************************************************)
\* The storage key pathCelRoleCreate, pathCelRoleDelete and getCelRole use.
celRoleIndex(name) == <<"cel/role/", name>>

\* The role names, in the order storage lists them.
CelRoleNames == <<"n1", "n2">>

\* cel.Env.Compile: the expressions that compile.
CompilesCEL(expressions) == expressions = "true"

\* validateCelRoleCreation: the error of validateCelExpressions.
validateCelRoleCreation(entry) ==
    IF CompilesCEL(entry.Expressions) THEN NoErr ELSE "Invalid CEL syntax"

ErrorResponse(text) == [kind |-> "errorResponse", text |-> text]

\* pathCelRoleCreate that stores the request's failure_policy unexamined.
pathCelRoleCreate_AnyPolicy(p, name, validationProgram, failurePolicy, fail) ==
    /\ NextToCall(p)
    /\ call' = [call EXCEPT ![p] = [NoCall EXCEPT !.op = "celCreate", !.roleName = name,
                                       !.secretID = validationProgram,
                                       !.hmacKey = failurePolicy]]
    /\ LET entry == [kind |-> "celRole", Name |-> name,
                     Expressions |-> validationProgram,
                     FailurePolicy |-> failurePolicy, Message |-> ""]
       IN  IF validationProgram = ""
           THEN /\ Return(p, NoErr, ErrorResponse("missing required field 'validation_program'"))
                /\ UNCHANGED storage
           ELSE IF validateCelRoleCreation(entry) # NoErr
           THEN /\ Return(p, validateCelRoleCreation(entry), Nil)
                /\ UNCHANGED storage
           ELSE IF fail
           THEN /\ Return(p, "storage: put failed", Nil)
                /\ UNCHANGED storage
           ELSE /\ Return(p, NoErr, [kind |-> "response", data |-> entry])
                /\ storage' = StoragePut(storage, celRoleIndex(name), entry)
    /\ UNCHANGED <<secretIDLocks, secretIDAccessorLocks, secretIDListingLock,
                   uuidCount, loc, hist>>

\* pathCelRoleCreate.  validationProgram is "" when the request has no
\* validation_program, else its expressions; failurePolicy is "" when the
\* request gives none.  fail: req.Storage.Put returns an error.
pathCelRoleCreate(p, name, validationProgram, failurePolicy, fail) ==
    /\ NextToCall(p)
    /\ call' = [call EXCEPT ![p] = [NoCall EXCEPT !.op = "celCreate", !.roleName = name,
                                       !.secretID = validationProgram,
                                       !.hmacKey = failurePolicy]]
    /\ LET entry == [kind |-> "celRole", Name |-> name,
                     Expressions |-> validationProgram,
                     FailurePolicy |-> IF failurePolicy = "" THEN "Deny" ELSE failurePolicy,
                     Message |-> ""]
       IN  IF validationProgram = ""
           THEN /\ Return(p, NoErr, ErrorResponse("missing required field 'validation_program'"))
                /\ UNCHANGED storage
           ELSE IF failurePolicy \notin {"", "Deny", "Modify"}
           THEN /\ Return(p, NoErr, ErrorResponse("failure_policy must be 'Deny' or 'Modify'"))
                /\ UNCHANGED storage
           ELSE IF validateCelRoleCreation(entry) # NoErr
           THEN /\ Return(p, validateCelRoleCreation(entry), Nil)
                /\ UNCHANGED storage
           ELSE IF fail
           THEN /\ Return(p, "storage: put failed", Nil)
                /\ UNCHANGED storage
           ELSE /\ Return(p, NoErr, [kind |-> "response", data |-> entry])
                /\ storage' = StoragePut(storage, celRoleIndex(name), entry)
    /\ UNCHANGED <<secretIDLocks, secretIDAccessorLocks, secretIDListingLock,
                   uuidCount, loc, hist>>

\* req.Storage.ListPage(prefix, after, limit): the names stored under the
\* prefix, in order, after the given one, and at most limit of them when
\* limit is positive.
ListPage(s, prefix, after, limit) ==
    LET Stored(n) == <<prefix, n>> \in DOMAIN s
        Later(n) ==
            after = "" \/ \E i, j \in DOMAIN CelRoleNames :
                             CelRoleNames[i] = after /\ CelRoleNames[j] = n /\ i < j
        Listed(n) == Stored(n) /\ Later(n)
        keys == SelectSeq(CelRoleNames, Listed)
    IN  IF limit > 0 /\ limit < Len(keys) THEN SubSeq(keys, 1, limit) ELSE keys

ListResponse(keys) == [kind |-> "list", keys |-> keys]

\* pathCelList.  fail: req.Storage.ListPage returns an error.
pathCelList(p, after, limit, fail) ==
    /\ NextToCall(p)
    /\ call' = [call EXCEPT ![p] = [NoCall EXCEPT !.op = "celList", !.secretID = after,
                                       !.secretIDTTL = limit]]
    /\ IF fail
       THEN Return(p, "storage: list failed", Nil)
       ELSE Return(p, NoErr, ListResponse(ListPage(storage, "cel/roles/", after, limit)))
    /\ UNCHANGED <<storage, secretIDLocks, secretIDAccessorLocks,
                   secretIDListingLock, uuidCount, loc, hist>>

\* pathCelRoleDelete.  fail: req.Storage.Delete returns an error.
pathCelRoleDelete(p, name, fail) ==
    /\ NextToCall(p)
    /\ call' = [call EXCEPT ![p] = [NoCall EXCEPT !.op = "celDelete", !.roleName = name]]
    /\ IF fail
       THEN Return(p, "storage: delete failed", Nil) /\ UNCHANGED storage
       ELSE Return(p, NoErr, Nil) /\ storage' = StorageDelete(storage, celRoleIndex(name))
    /\ UNCHANGED <<secretIDLocks, secretIDAccessorLocks, secretIDListingLock,
                   uuidCount, loc, hist>>

\* The panic of the type assertion data.Get("validation_program").(ValidationProgram):
\* the field is a framework.TypeMap, whose value is a map[string]interface{}
\* (the value pathCelRoleCreate decodes), never a ValidationProgram.
PanicInterfaceConversion ==
    "panic: interface conversion: interface {} is map[string]interface {}, not pki.ValidationProgram"

\* pathCelRolePatch.  fail: the Get of getCelRole returns an error.  With
\* the role in storage the handler builds the new entry, and the type
\* assertion on validation_program, the first of the entry's fields to need
\* the request, panics: the request's failure_policy is never read and
\* nothing is stored.
pathCelRolePatch(p, name, validationProgram, failurePolicy, fail) ==
    /\ NextToCall(p)
    /\ call' = [call EXCEPT ![p] = [NoCall EXCEPT !.op = "celPatch", !.roleName = name,
                                       !.secretID = validationProgram,
                                       !.hmacKey = failurePolicy]]
    /\ LET oldEntry == StorageGet(storage, celRoleIndex(name))
       IN  IF fail
           THEN Return(p, "storage: get failed", Nil)
           ELSE IF oldEntry = Nil
           THEN Return(p, NoErr, ErrorResponse("Unable to fetch cel role entry to patch"))
           ELSE Return(p, PanicInterfaceConversion, Nil)
    /\ UNCHANGED <<storage, secretIDLocks, secretIDAccessorLocks, secretIDListingLock,
                   uuidCount, loc, hist>>

\* The requests: names, validation programs that are missing, that compile
\* and that do not, failure policies, and the paging of a list.
CelNameInputs == {CelRoleNames[i] : i \in DOMAIN CelRoleNames}
ValidationProgramInputs == {"", "true", "1 +"}
FailurePolicyInputs == {"", "Deny", "Modify", "Allow"}
AfterInputs == {"", "n1"}
LimitInputs == {0, 1}

NextCel ==
    \E p \in Procs :
        \/ \E name \in CelNameInputs, validationProgram \in ValidationProgramInputs,
              failurePolicy \in FailurePolicyInputs, fail \in BOOLEAN :
              pathCelRoleCreate(p, name, validationProgram, failurePolicy, fail)
        \/ \E after \in AfterInputs, limit \in LimitInputs, fail \in BOOLEAN :
              pathCelList(p, after, limit, fail)
        \/ \E name \in CelNameInputs, fail \in BOOLEAN : pathCelRoleDelete(p, name, fail)
        \/ \E name \in CelNameInputs, failurePolicy \in FailurePolicyInputs,
              fail \in BOOLEAN :
              pathCelRolePatch(p, name, "true", failurePolicy, fail)

\* The CEL role handlers of a pki mount with no role stored.
SpecCel == Init /\ [][NextCel]_vars

(***************************************************************************)
(* builtin/logical/ssh/storage.go: the issuers of an ssh mount.  An issuer *)
(* is stored under issuerPrefix + id, and the id of the default issuer in  *)
(* the issuers configuration.  The calls of a goroutine use pc, call, loc  *)
(* and ret as the AppRole calls do; one step is one storage call.          *)
(***************************************************************************)
issuerPrefix == "config/issuer/"
storageIssuerConfig == "config/issuers"

issuerIndex(id) == <<issuerPrefix, id>>
issuerConfigIndex == <<storageIssuerConfig, "">>

\* The issuer ids, in the order storage lists them.
IssuerIDs == <<"i1", "i2", "i3">>
IssuerIDInputs == {IssuerIDs[k] : k \in DOMAIN IssuerIDs}

issuerEntry(id) == [kind |-> "issuer", ID |-> id]
issuerConfigEntry(default) == [kind |-> "issuerConfig", DefaultIssuerID |-> default]

\* getIssuersConfig: the stored configuration, or an empty one when none
\* is stored.
getIssuersConfig(s) ==
    IF issuerConfigIndex \in DOMAIN s THEN s[issuerConfigIndex] ELSE issuerConfigEntry("")

\* listIssuers: the ids of the stored issuers.
listIssuers(s) ==
    LET Stored(id) == issuerIndex(id) \in DOMAIN s
    IN  SelectSeq(IssuerIDs, Stored)

\* The locals of deleteIssuer, and of purgeIssuers when it is the caller.
IssuerLocals == [caller |-> "request", id |-> "", config |-> Nil, wasDefault |-> FALSE,
                 issuerIds |-> <<>>, i |-> 0, deleted |-> 0, err |-> NoErr]

WasDefault(wasDefault) == [kind |-> "wasDefault", wasDefault |-> wasDefault]
Deleted(deleted) == [kind |-> "deleted", deleted |-> deleted]

\* A request handler calls deleteIssuer(id).
DeleteIssuerCall(p, id) ==
    /\ NextToCall(p) /\ p <= MaxCalls
    /\ call' = [call EXCEPT ![p] = [op |-> "deleteIssuer", id |-> id]]
    /\ loc' = [loc EXCEPT ![p] = [IssuerLocals EXCEPT !.id = id]]
    /\ Goto(p, "di_get")
    /\ UNCHANGED <<storage, secretIDLocks, secretIDAccessorLocks, secretIDListingLock,
                   uuidCount, hist>>

\* The return of deleteIssuer with (wasDefault, err): to the request
\* handler, or into the loop of purgeIssuers, which returns on an error,
\* and otherwise counts the issuer and goes on with the next id, if any.
DeleteIssuerReturn(p, wasDefault, err) ==
    IF loc[p].caller = "request"
    THEN /\ Return(p, err, WasDefault(wasDefault))
         /\ loc' = [loc EXCEPT ![p].wasDefault = wasDefault, ![p].err = err]
    ELSE IF err # NoErr
    THEN /\ Return(p, err, Deleted(loc[p].deleted))
         /\ loc' = [loc EXCEPT ![p].wasDefault = wasDefault, ![p].err = err]
    ELSE IF loc[p].i < Len(loc[p].issuerIds)
    THEN /\ Goto(p, "di_get")
         /\ loc' = [loc EXCEPT ![p].deleted = @ + 1, ![p].i = @ + 1,
                               ![p].id = loc[p].issuerIds[loc[p].i + 1],
                               ![p].config = Nil, ![p].wasDefault = FALSE]
    ELSE /\ Return(p, NoErr, Deleted(loc[p].deleted + 1))
         /\ loc' = [loc EXCEPT ![p].deleted = @ + 1, ![p].wasDefault = wasDefault]

\* deleteIssuer: getIssuersConfig.  fail: Storage.Get returns an error.
DeleteIssuerGetConfig(p, fail) ==
    /\ pc[p] = "di_get"
    /\ IF fail
       THEN DeleteIssuerReturn(p, FALSE, "storage: get failed")
       ELSE LET config == getIssuersConfig(storage)
            IN  IF config.DefaultIssuerID = loc[p].id
                THEN /\ loc' = [loc EXCEPT ![p].wasDefault = TRUE,
                                          ![p].config = issuerConfigEntry("")]
                     /\ Goto(p, "di_set")
                ELSE /\ loc' = [loc EXCEPT ![p].wasDefault = FALSE, ![p].config = config]
                     /\ Goto(p, "di_delete")
    /\ UNCHANGED <<storage, secretIDLocks, secretIDAccessorLocks, secretIDListingLock,
                   uuidCount, call, hist>>

\* deleteIssuer that goes on to delete the issuer when the configuration
\* could not be written.
DeleteIssuerSetConfig_ErrorIgnored(p, fail) ==
    /\ pc[p] = "di_set"
    /\ storage' = IF fail THEN storage
                  ELSE StoragePut(storage, issuerConfigIndex, loc[p].config)
    /\ Goto(p, "di_delete")
    /\ UNCHANGED <<secretIDLocks, secretIDAccessorLocks, secretIDListingLock,
                   uuidCount, call, loc, hist>>

\* deleteIssuer: setIssuersConfig, when the issuer was the default.
\* fail: Storage.Put returns an error.
DeleteIssuerSetConfig(p, fail) ==
    /\ pc[p] = "di_set"
    /\ IF fail
       THEN /\ DeleteIssuerReturn(p, TRUE, "storage: put failed")
            /\ UNCHANGED storage
       ELSE /\ storage' = StoragePut(storage, issuerConfigIndex, loc[p].config)
            /\ Goto(p, "di_delete")
            /\ UNCHANGED loc
    /\ UNCHANGED <<secretIDLocks, secretIDAccessorLocks, secretIDListingLock,
                   uuidCount, call, hist>>

\* deleteIssuer whose failed deletion is reported without its error.
DeleteIssuerDelete_ErrorDropped(p, fail) ==
    /\ pc[p] = "di_delete"
    /\ storage' = IF fail THEN storage
                  ELSE StorageDelete(storage, issuerIndex(loc[p].id))
    /\ DeleteIssuerReturn(p, loc[p].wasDefault, NoErr)
    /\ UNCHANGED <<secretIDLocks, secretIDAccessorLocks, secretIDListingLock,
                   uuidCount, call, hist>>

\* deleteIssuer: Storage.Delete of the issuer, and the return.
\* fail: Storage.Delete returns an error.
DeleteIssuerDelete(p, fail) ==
    /\ pc[p] = "di_delete"
    /\ IF fail
       THEN /\ DeleteIssuerReturn(p, loc[p].wasDefault, "storage: delete failed")
            /\ UNCHANGED storage
       ELSE /\ storage' = StorageDelete(storage, issuerIndex(loc[p].id))
            /\ DeleteIssuerReturn(p, loc[p].wasDefault, NoErr)
    /\ UNCHANGED <<secretIDLocks, secretIDAccessorLocks, secretIDListingLock,
                   uuidCount, call, hist>>

\* purgeIssuers: listIssuers, and the first round of the loop.
\* fail: Storage.ListPage returns an error.
PurgeIssuers(p, fail) ==
    /\ NextToCall(p) /\ p <= MaxCalls
    /\ call' = [call EXCEPT ![p] = [op |-> "purgeIssuers", id |-> ""]]
    /\ LET issuerIds == listIssuers(storage)
       IN  IF fail
           THEN /\ Return(p, "storage: list failed", Deleted(0))
                /\ loc' = [loc EXCEPT ![p] = [IssuerLocals EXCEPT !.caller = "purgeIssuers",
                                                                !.err = "storage: list failed"]]
           ELSE IF issuerIds = <<>>
           THEN /\ Return(p, NoErr, Deleted(0))
                /\ loc' = [loc EXCEPT ![p] = [IssuerLocals EXCEPT !.caller = "purgeIssuers"]]
           ELSE /\ Goto(p, "di_get")
                /\ loc' = [loc EXCEPT ![p] = [IssuerLocals EXCEPT !.caller = "purgeIssuers",
                                                 !.issuerIds = issuerIds, !.i = 1,
                                                 !.id = issuerIds[1]]]
    /\ UNCHANGED <<storage, secretIDLocks, secretIDAccessorLocks, secretIDListingLock,
                   uuidCount, hist>>

\* The mounts the calls start from: the issuers of the mount, and a default
\* issuer that is one of them or none; with no default the configuration
\* may never have been written.
IssuerStorage(ids, default, configured) ==
    [k \in {issuerIndex(id) : id \in ids}
           \cup (IF configured THEN {issuerConfigIndex} ELSE {}) |->
        IF k = issuerConfigIndex THEN issuerConfigEntry(default) ELSE issuerEntry(k[2])]

InitIssuers ==
    /\ \E ids \in SUBSET IssuerIDInputs, default \in IssuerIDInputs \cup {""},
          configured \in BOOLEAN :
          /\ default # "" => default \in ids /\ configured
          /\ Cardinality(ids) >= 2
          /\ storage = IssuerStorage(ids, default, configured)
    /\ secretIDLocks = [s \in Slots |-> FreeLock]
    /\ secretIDAccessorLocks = [s \in Slots |-> FreeLock]
    /\ secretIDListingLock = FreeLock
    /\ uuidCount = 0
    /\ pc = [p \in Procs |-> "idle"]
    /\ call = [p \in Procs |-> NoCall]
    /\ loc = [p \in Procs |-> NoLocals]
    /\ ret = [p \in Procs |-> NoReturn]
    /\ hist = [p \in Procs |-> NoHist]

NextIssuers ==
    \E p \in Procs :
        \/ \E id \in IssuerIDInputs : DeleteIssuerCall(p, id)
        \/ \E fail \in BOOLEAN : PurgeIssuers(p, fail)
        \/ \E fail \in BOOLEAN : DeleteIssuerGetConfig(p, fail)
        \/ \E fail \in BOOLEAN : DeleteIssuerSetConfig(p, fail)
        \/ \E fail \in BOOLEAN : DeleteIssuerDelete(p, fail)

\* Concurrent deleteIssuer and purgeIssuers calls on one mount.
SpecIssuers == InitIssuers /\ [][NextIssuers]_vars

(***************************************************************************)
(* checkForRolesReferencingIssuer: the scan of the roles of an ssh mount   *)
(* for the ones that name an issuer.  The roles are numbered in the order  *)
(* storage lists them; one step is one storage call with what follows it.  *)
(***************************************************************************)
maxRolesToScanOnIssuerChange == 100
maxRolesToFindOnIssuerChange == 10

roleIndex(roleName) == <<"roles/", roleName>>
sshRole(issuer) == [kind |-> "sshRole", Issuer |-> issuer]

\* Storage.List(ctx, "roles/"): the names of the stored roles, in order.
Ascending(names) ==
    [i \in 1..Cardinality(names) |->
        CHOOSE n \in names : Cardinality({m \in names : m < n}) = i - 1]

ListRoles(s) == Ascending({k[2] : k \in {x \in DOMAIN s : x[1] = "roles/"}})

CheckLocals == [issuerName |-> "", roleEntries |-> <<>>, i |-> 0, inUseBy |-> 0,
                checkedRoles |-> 0, err |-> NoErr]

CheckResult(timeout, inUseBy) ==
    [kind |-> "check", timeout |-> timeout, inUseBy |-> inUseBy]

\* checkForRolesReferencingIssuer: Storage.List.  fail: it returns an error.
\* The calls do not write, so a run has one.
CheckList(p, issuerName, fail) ==
    /\ \A q \in Procs : pc[q] = "idle"
    /\ call' = [call EXCEPT ![p] = [op |-> "checkForRolesReferencingIssuer",
                                    issuerName |-> issuerName]]
    /\ LET roleEntries == ListRoles(storage)
           locals == [CheckLocals EXCEPT !.issuerName = issuerName]
       IN  IF fail
           THEN /\ Return(p, "storage: list failed", CheckResult(FALSE, 0))
                /\ loc' = [loc EXCEPT ![p] = [locals EXCEPT !.err = "storage: list failed"]]
           ELSE IF roleEntries = <<>>
           THEN /\ Return(p, NoErr, CheckResult(FALSE, 0))
                /\ loc' = [loc EXCEPT ![p] = locals]
           ELSE /\ Goto(p, "ck_get")
                /\ loc' = [loc EXCEPT ![p] = [locals EXCEPT !.roleEntries = roleEntries,
                                                            !.i = 1]]
    /\ UNCHANGED <<storage, secretIDLocks, secretIDAccessorLocks, secretIDListingLock,
                   uuidCount, hist>>

\* CheckGet of a loop that stops one role after the scan limit.
CheckGet_ScanOneMore(p, failure) ==
    /\ pc[p] = "ck_get"
    /\ LET entry == StorageGet(storage, roleIndex(loc[p].roleEntries[loc[p].i]))
           inUseBy == IF entry # Nil /\ entry.Issuer = loc[p].issuerName
                      THEN loc[p].inUseBy + 1 ELSE loc[p].inUseBy
           checkedRoles == loc[p].checkedRoles + 1
       IN  IF failure = "storage: get failed" \/ (failure # NoErr /\ entry # Nil)
           THEN /\ Return(p, failure, CheckResult(FALSE, loc[p].inUseBy))
                /\ loc' = [loc EXCEPT ![p].err = failure]
           ELSE IF inUseBy > loc[p].inUseBy /\ inUseBy >= maxRolesToFindOnIssuerChange
           THEN /\ Return(p, NoErr, CheckResult(TRUE, inUseBy))
                /\ loc' = [loc EXCEPT ![p].inUseBy = inUseBy]
           ELSE IF checkedRoles > maxRolesToScanOnIssuerChange
           THEN /\ Return(p, NoErr, CheckResult(TRUE, inUseBy))
                /\ loc' = [loc EXCEPT ![p].inUseBy = inUseBy,
                                      ![p].checkedRoles = checkedRoles]
           ELSE IF loc[p].i = Len(loc[p].roleEntries)
           THEN /\ Return(p, NoErr, CheckResult(FALSE, inUseBy))
                /\ loc' = [loc EXCEPT ![p].inUseBy = inUseBy,
                                      ![p].checkedRoles = checkedRoles]
           ELSE /\ Goto(p, "ck_get")
                /\ loc' = [loc EXCEPT ![p].inUseBy = inUseBy,
                                      ![p].checkedRoles = checkedRoles,
                                      ![p].i = @ + 1]
    /\ UNCHANGED <<storage, secretIDLocks, secretIDAccessorLocks, secretIDListingLock,
                   uuidCount, call, hist>>

\* One round of the loop: Storage.Get of the role, the comparison of its
\* issuer and the two limits.  failure: the error of Storage.Get or of
\* DecodeJSON, or NoErr.
CheckGet(p, failure) ==
    /\ pc[p] = "ck_get"
    /\ LET entry == StorageGet(storage, roleIndex(loc[p].roleEntries[loc[p].i]))
           inUseBy == IF entry # Nil /\ entry.Issuer = loc[p].issuerName
                      THEN loc[p].inUseBy + 1 ELSE loc[p].inUseBy
           checkedRoles == loc[p].checkedRoles + 1
       IN  IF failure = "storage: get failed" \/ (failure # NoErr /\ entry # Nil)
           THEN /\ Return(p, failure, CheckResult(FALSE, loc[p].inUseBy))
                /\ loc' = [loc EXCEPT ![p].err = failure]
           ELSE IF inUseBy > loc[p].inUseBy /\ inUseBy >= maxRolesToFindOnIssuerChange
           THEN /\ Return(p, NoErr, CheckResult(TRUE, inUseBy))
                /\ loc' = [loc EXCEPT ![p].inUseBy = inUseBy]
           ELSE IF checkedRoles >= maxRolesToScanOnIssuerChange
           THEN /\ Return(p, NoErr, CheckResult(TRUE, inUseBy))
                /\ loc' = [loc EXCEPT ![p].inUseBy = inUseBy,
                                      ![p].checkedRoles = checkedRoles]
           ELSE IF loc[p].i = Len(loc[p].roleEntries)
           THEN /\ Return(p, NoErr, CheckResult(FALSE, inUseBy))
                /\ loc' = [loc EXCEPT ![p].inUseBy = inUseBy,
                                      ![p].checkedRoles = checkedRoles]
           ELSE /\ Goto(p, "ck_get")
                /\ loc' = [loc EXCEPT ![p].inUseBy = inUseBy,
                                      ![p].checkedRoles = checkedRoles,
                                      ![p].i = @ + 1]
    /\ UNCHANGED <<storage, secretIDLocks, secretIDAccessorLocks, secretIDListingLock,
                   uuidCount, call, hist>>

\* Another request deletes a role while the scan, which holds no lock, runs.
DeletableRoles == {10}

RoleDeleted(roleName) ==
    /\ \E p \in Procs : pc[p] = "ck_get"
    /\ roleIndex(roleName) \in DOMAIN storage
    /\ storage' = StorageDelete(storage, roleIndex(roleName))
    /\ UNCHANGED <<secretIDLocks, secretIDAccessorLocks, secretIDListingLock,
                   uuidCount, pc, call, loc, ret, hist>>

\* The mounts the scan starts from: so many roles, of which the first or
\* the last so many name the issuer "ca" and the others the issuer "other".
RoleCounts == {0, 1, 9, 10, 11, 99, 100, 101}
MatchCounts == {0, 1, 9, 10, 11}
IssuerNames == {"ca", "other"}
GetFailures == {NoErr, "storage: get failed", "decode failed"}

RoleStorage(roles, matches, atEnd) ==
    [k \in {roleIndex(n) : n \in 1..roles} |->
        IF (IF atEnd THEN k[2] > roles - matches ELSE k[2] <= matches)
        THEN sshRole("ca") ELSE sshRole("other")]

InitRoles ==
    /\ \E roles \in RoleCounts, matches \in MatchCounts, atEnd \in BOOLEAN :
          /\ matches <= roles
          /\ storage = RoleStorage(roles, matches, atEnd)
    /\ secretIDLocks = [s \in Slots |-> FreeLock]
    /\ secretIDAccessorLocks = [s \in Slots |-> FreeLock]
    /\ secretIDListingLock = FreeLock
    /\ uuidCount = 0
    /\ pc = [p \in Procs |-> "idle"]
    /\ call = [p \in Procs |-> NoCall]
    /\ loc = [p \in Procs |-> NoLocals]
    /\ ret = [p \in Procs |-> NoReturn]
    /\ hist = [p \in Procs |-> NoHist]

NextRoles ==
    \/ \E p \in Procs :
          \/ \E issuerName \in IssuerNames, fail \in BOOLEAN : CheckList(p, issuerName, fail)
          \/ \E failure \in GetFailures : CheckGet(p, failure)
    \/ \E roleName \in DeletableRoles : RoleDeleted(roleName)

SpecRoles == InitRoles /\ [][NextRoles]_vars

(***************************************************************************)
(* builtin/credential/ldap/path_config.go: backend.Config, the read of the *)
(* configuration of an ldap mount with the upgrade of a configuration an   *)
(* earlier version has stored.  A *bool field is "nil", "true" or "false". *)
(***************************************************************************)
ldapConfigIndex == <<"config", "">>

ldapConfigEntry(caseSensitiveNames, usePre111GroupCNBehavior) ==
    [kind |-> "ldapConfig", CaseSensitiveNames |-> caseSensitiveNames,
     UsePre111GroupCNBehavior |-> usePre111GroupCNBehavior]

\* The configuration Config returns when none is stored.
DefaultLdapConfig == ldapConfigEntry("false", "false")

\* The upgrade of a stored configuration: a field that is nil becomes true.
UpgradedFlag(flag) == IF flag = "nil" THEN "true" ELSE flag

UpgradedLdapConfig(stored) ==
    ldapConfigEntry(UpgradedFlag(stored.CaseSensitiveNames),
                    UpgradedFlag(stored.UsePre111GroupCNBehavior))

persistNeeded(stored) ==
    stored.CaseSensitiveNames = "nil" \/ stored.UsePre111GroupCNBehavior = "nil"

\* b.System().LocalMount() || !ReplicationState().HasState(
\* ReplicationPerformanceSecondary | ReplicationPerformanceStandby)
MayPersist(localMount, secondaryOrStandby) == localMount \/ ~secondaryOrStandby

ConfigLocals == [storedConfig |-> Nil, result |-> Nil, tx |-> Nil, err |-> NoErr,
                 put |-> FALSE]

\* Config: logical.StartTxStorage.  transactional: the storage of the mount
\* has transactions, and the storage calls of Config are made in one;
\* fail: no transaction could be started.
ConfigStart(p, localMount, secondaryOrStandby, transactional, fail) ==
    /\ NextToCall(p) /\ p <= MaxCalls
    /\ call' = [call EXCEPT ![p] = [op |-> "Config", localMount |-> localMount,
                                    secondaryOrStandby |-> secondaryOrStandby,
                                    transactional |-> transactional]]
    /\ loc' = [loc EXCEPT ![p] = ConfigLocals]
    /\ IF transactional /\ fail
       THEN Return(p, "storage: begin failed", Nil)
       ELSE Goto(p, "lc_get")
    /\ UNCHANGED <<storage, secretIDLocks, secretIDAccessorLocks, secretIDListingLock,
                   uuidCount, hist>>

\* Config that writes the configuration back on every read of a stored one.
ConfigGet_AlwaysPersists(p, fail) ==
    /\ pc[p] = "lc_get"
    /\ LET storedConfig == StorageGet(storage, ldapConfigIndex)
       IN  IF fail
           THEN /\ Return(p, "storage: get failed", Nil)
                /\ loc' = [loc EXCEPT ![p].err = "storage: get failed"]
           ELSE IF storedConfig = Nil
           THEN /\ Return(p, NoErr, DefaultLdapConfig)
                /\ loc' = [loc EXCEPT ![p].result = DefaultLdapConfig]
           ELSE /\ loc' = [loc EXCEPT ![p].storedConfig = storedConfig,
                                      ![p].result = UpgradedLdapConfig(storedConfig)]
                /\ IF MayPersist(call[p].localMount, call[p].secondaryOrStandby)
                   THEN Goto(p, "lc_put")
                   ELSE Goto(p, "lc_end")
    /\ UNCHANGED <<storage, secretIDLocks, secretIDAccessorLocks, secretIDListingLock,
                   uuidCount, call, hist>>

\* Config: Storage.Get of "config", the defaults when nothing is stored,
\* and otherwise the upgrade of the two fields.  fail: Storage.Get or
\* DecodeJSON returns an error.
ConfigGet(p, fail) ==
    /\ pc[p] = "lc_get"
    /\ LET storedConfig == StorageGet(storage, ldapConfigIndex)
       IN  IF fail
           THEN /\ Return(p, "storage: get failed", Nil)
                /\ loc' = [loc EXCEPT ![p].err = "storage: get failed"]
           ELSE IF storedConfig = Nil
           THEN /\ Return(p, NoErr, DefaultLdapConfig)
                /\ loc' = [loc EXCEPT ![p].result = DefaultLdapConfig]
           ELSE /\ loc' = [loc EXCEPT ![p].storedConfig = storedConfig,
                                      ![p].result = UpgradedLdapConfig(storedConfig)]
                /\ IF persistNeeded(storedConfig)
                      /\ MayPersist(call[p].localMount, call[p].secondaryOrStandby)
                   THEN Goto(p, "lc_put")
                   ELSE Goto(p, "lc_end")
    /\ UNCHANGED <<storage, secretIDLocks, secretIDAccessorLocks, secretIDListingLock,
                   uuidCount, call, hist>>

\* Config: Storage.Put of the upgraded configuration, into the transaction
\* when there is one.  fail: Storage.Put returns an error.
ConfigPut(p, fail) ==
    /\ pc[p] = "lc_put"
    /\ IF fail
       THEN /\ Return(p, "storage: put failed", Nil)
            /\ loc' = [loc EXCEPT ![p].err = "storage: put failed"]
            /\ UNCHANGED storage
       ELSE /\ Goto(p, "lc_end")
            /\ IF call[p].transactional
               THEN /\ loc' = [loc EXCEPT ![p].tx = loc[p].result, ![p].put = TRUE]
                    /\ UNCHANGED storage
               ELSE /\ loc' = [loc EXCEPT ![p].put = TRUE]
                    /\ storage' = StoragePut(storage, ldapConfigIndex, loc[p].result)
    /\ UNCHANGED <<secretIDLocks, secretIDAccessorLocks, secretIDListingLock,
                   uuidCount, call, hist>>

\* Config: logical.EndTxStorage, the commit of the transaction, and the
\* return of the configuration.  fail: the commit returns an error and the
\* deferred rollback drops what the transaction has written.
ConfigEndTx(p, fail) ==
    /\ pc[p] = "lc_end"
    /\ IF call[p].transactional /\ fail
       THEN /\ Return(p, "storage: commit failed", Nil)
            /\ loc' = [loc EXCEPT ![p].err = "storage: commit failed", ![p].tx = Nil]
            /\ UNCHANGED storage
       ELSE /\ Return(p, NoErr, loc[p].result)
            /\ loc' = [loc EXCEPT ![p].tx = Nil]
            /\ storage' = IF loc[p].tx # Nil
                          THEN StoragePut(storage, ldapConfigIndex, loc[p].tx)
                          ELSE storage
    /\ UNCHANGED <<secretIDLocks, secretIDAccessorLocks, secretIDListingLock,
                   uuidCount, call, hist>>

\* The mounts Config reads: no configuration, or one whose two fields are
\* set or, written by an earlier version, missing.
FlagInputs == {"nil", "true", "false"}

InitLdap ==
    /\ \/ storage = [k \in {} |-> Nil]
       \/ \E c, u \in FlagInputs :
             storage = [k \in {ldapConfigIndex} |-> ldapConfigEntry(c, u)]
    /\ secretIDLocks = [s \in Slots |-> FreeLock]
    /\ secretIDAccessorLocks = [s \in Slots |-> FreeLock]
    /\ secretIDListingLock = FreeLock
    /\ uuidCount = 0
    /\ pc = [p \in Procs |-> "idle"]
    /\ call = [p \in Procs |-> NoCall]
    /\ loc = [p \in Procs |-> NoLocals]
    /\ ret = [p \in Procs |-> NoReturn]
    /\ hist = [p \in Procs |-> NoHist]

NextLdap ==
    \E p \in Procs :
        \/ \E localMount, secondaryOrStandby, transactional, fail \in BOOLEAN :
              ConfigStart(p, localMount, secondaryOrStandby, transactional, fail)
        \/ \E fail \in BOOLEAN : ConfigGet(p, fail)
        \/ \E fail \in BOOLEAN : ConfigPut(p, fail)
        \/ \E fail \in BOOLEAN : ConfigEndTx(p, fail)

SpecLdap == InitLdap /\ [][NextLdap]_vars

(***************************************************************************)
(* The store service of the web UI (src/unnamed/part_000): the cache of    *)
(* the datasets of lazyPaginatedQuery.  The variable storage holds         *)
(* lazyCaches, the dataset of a model and a cache key under the pair of    *)
(* the two.  A caller is one lazyPaginatedQuery; a step is what runs       *)
(* without a break in the run loop: the call up to the adapter's promise,  *)
(* and the callback of that promise.  Strings that are searched are        *)
(* sequences of characters.                                                *)
(***************************************************************************)
DEFAULT_PAGE_SIZE == 100

\* dasherize, on the model names of the requests.
normalizeModelName(modelName) == IF modelName = "pkiRole" THEN "pki-role" ELSE modelName

\* keyForCache that leaves the page in the key.
keyForCache_WithPage(query) ==
    [k \in DOMAIN query \ {"size", "responsePath", "pageFilter"} |-> query[k]]

\* keyForCache: the query without size, page, responsePath and pageFilter.
\* JSON.stringify of the sorted fields is one string for one such record.
keyForCache(query) ==
    [k \in DOMAIN query \ {"size", "page", "responsePath", "pageFilter"} |-> query[k]]

lazyCacheIndex(modelName, key) == <<normalizeModelName(modelName), keyForCache(key)>>

\* setLazyCacheForModel, getLazyCacheForModel.
setLazyCacheForModel(lazyCaches, modelName, key, value) ==
    StoragePut(lazyCaches, lazyCacheIndex(modelName, key), value)

getLazyCacheForModel(lazyCaches, modelName, key) ==
    StorageGet(lazyCaches, lazyCacheIndex(modelName, key))

getDataset(lazyCaches, modelName, query) == getLazyCacheForModel(lazyCaches, modelName, query)

\* storeDataset, for a query without sortBy.
storeDataset(lazyCaches, modelName, query, response, array) ==
    setLazyCacheForModel(lazyCaches, modelName, query,
                         [kind |-> "dataset", response |-> response, dataset |-> array])

\* String.prototype.toLowerCase and String.prototype.includes.
ToLowerCase(str) == [j \in DOMAIN str |-> IF str[j] = "K" THEN "k" ELSE str[j]]

Includes(str, part) ==
    \E j \in 1..(Len(str) - Len(part) + 1) : SubSeq(str, j, j + Len(part) - 1) = part

\* filterData: the items whose id contains the filter, whatever the case.
filterData(filter, dataset) ==
    LET Match(item) == Includes(ToLowerCase(item), ToLowerCase(filter))
    IN  IF filter # <<>> THEN SelectSeq(dataset, Match) ELSE dataset

\* Math.ceil(a / b), clamp(num, min, max) and Array.prototype.slice.
CeilDiv(a, b) == (a + b - 1) \div b
Clamp(num, min, max) ==
    LET atLeast == IF num > min THEN num ELSE min
    IN  IF atLeast < max THEN atLeast ELSE max
Slice(array, start, end) ==
    LET from == IF start < 0 THEN (IF Len(array) + start > 0 THEN Len(array) + start ELSE 0)
                ELSE start
        to == IF end > Len(array) THEN Len(array) ELSE end
    IN  IF from < to THEN SubSeq(array, from + 1, to) ELSE <<>>

\* constructResponse: the page of the filtered dataset, with the totals of
\* the meta block.
constructResponse(lazyCaches, modelName, query) ==
    LET cached == getDataset(lazyCaches, modelName, query)
        data == filterData(query.pageFilter, cached.dataset)
        lastPage == CeilDiv(Len(data), query.size)
        currentPage == Clamp(query.page, 1, lastPage)
        end == currentPage * query.size
        start == end - query.size
    IN  [kind |-> "page", response |-> cached.response, data |-> Slice(data, start, end),
         currentPage |-> currentPage, lastPage |-> lastPage,
         total |-> Len(cached.dataset), filteredTotal |-> Len(data)]

\* The query with the default page size when it gives none.
WithSize(query) == IF query.size = 0 THEN [query EXCEPT !.size = DEFAULT_PAGE_SIZE] ELSE query

QueryLocals == [query |-> Nil, adapterCalled |-> FALSE, err |-> NoErr]

\* lazyPaginatedQuery up to its return of a promise: with a dataset in the
\* cache the page is made from it, else the adapter is called.
lazyPaginatedQuery(p, modelType, query) ==
    /\ NextToCall(p) /\ p <= MaxCalls
    /\ call' = [call EXCEPT ![p] = [op |-> "lazyPaginatedQuery", modelType |-> modelType,
                                    query |-> query]]
    /\ LET modelName == normalizeModelName(modelType)
           dataCache == getDataset(storage, modelName, query)
       IN  IF dataCache # Nil
           THEN /\ Return(p, NoErr, constructResponse(storage, modelName, WithSize(query)))
                /\ loc' = [loc EXCEPT ![p] = [QueryLocals EXCEPT !.query = WithSize(query)]]
           ELSE /\ Goto(p, "q_adapter")
                /\ loc' = [loc EXCEPT ![p] = [QueryLocals EXCEPT !.query = WithSize(query),
                                                                 !.adapterCalled = TRUE]]
    /\ UNCHANGED <<storage, secretIDLocks, secretIDAccessorLocks, secretIDListingLock,
                   uuidCount, hist>>

\* The promise of adapter.query is settled: with a response, whose dataset
\* is stored and whose page is made, or with an error, which is thrown on.
AdapterSettled(p, dataset, fail) ==
    /\ pc[p] = "q_adapter"
    /\ LET modelName == normalizeModelName(call[p].modelType)
           stored == storeDataset(storage, modelName, loc[p].query, "response", dataset)
       IN  IF fail
           THEN /\ Return(p, "adapter error", Nil)
                /\ loc' = [loc EXCEPT ![p].err = "adapter error"]
                /\ UNCHANGED storage
           ELSE /\ storage' = stored
                /\ Return(p, NoErr, constructResponse(stored, modelName, loc[p].query))
                /\ UNCHANGED loc
    /\ UNCHANGED <<secretIDLocks, secretIDAccessorLocks, secretIDListingLock,
                   uuidCount, call, hist>>

\* clearDataset: modelName is "" when the call gives none.  lazyCaches has
\* the normalized names of the models with a dataset.
CachedModels(lazyCaches) == {k[1] : k \in DOMAIN lazyCaches}

clearDataset(modelName) ==
    /\ CachedModels(storage) # {}
    /\ storage' = IF modelName # "" /\ modelName \in CachedModels(storage)
                  THEN [k \in {x \in DOMAIN storage : x[1] # modelName} |-> storage[k]]
                  ELSE [k \in {} |-> Nil]
    /\ UNCHANGED <<secretIDLocks, secretIDAccessorLocks, secretIDListingLock,
                   uuidCount, pc, call, loc, ret, hist>>

\* The requests: two models, one under two spellings; queries for two ids
\* that differ in the size, the page, the response path and the filter; the
\* datasets the server answers with.
ModelTypes == {"pkiRole", "pki-role", "secret"}
Query(id, size, page, responsePath, pageFilter) ==
    [id |-> id, size |-> size, page |-> page, responsePath |-> responsePath,
     pageFilter |-> pageFilter]
QueryInputs ==
    {Query("a", 0, 1, "data.keys", <<>>), Query("a", 1, 2, "data.keys", <<>>),
     Query("a", 2, 2, "data.roles", <<"k">>), Query("b", 0, 1, "data.keys", <<>>)}
DatasetInputs == {<<>>, << <<"K", "1">>, <<"k", "2">>, <<"x">> >>}
ClearInputs == {"", "pki-role", "pkiRole"}

NextStore ==
    \/ \E p \in Procs :
          \/ \E modelType \in ModelTypes, query \in QueryInputs :
                lazyPaginatedQuery(p, modelType, query)
          \/ \E dataset \in DatasetInputs, fail \in BOOLEAN : AdapterSettled(p, dataset, fail)
    \/ \E modelName \in ClearInputs : clearDataset(modelName)

\* A store service with no dataset cached.
SpecStore == Init /\ [][NextStore]_vars

(***************************************************************************)
(* Specifications                                                          *)
(***************************************************************************)
\* Every call, with storage calls that may fail.
Next ==
    \E p \in Procs :
        \/ \E r \in RoleNames, s \in SecretIDs : RegisterCall(p, r, s)
        \/ RegisterRLock(p)
        \/ \E fail \in BOOLEAN : RegisterGet1(p, fail)
        \/ RegisterRUnlock(p)
        \/ RegisterLock(p)
        \/ \E fail \in BOOLEAN : RegisterGet2(p, fail)
        \/ CreateAccessorFail(p)
        \/ CreateAccessorLock(p)
        \/ \E fail \in BOOLEAN : CreateAccessorPut(p, fail)
        \/ CreateAccessorUnlock(p)
        \/ \E fail \in BOOLEAN : RegisterPut(p, fail)
        \/ RegisterUnlock(p)
        \/ \E r \in RoleNames : FlushCall(p, r)
        \/ FlushRLock(p)
        \/ \E fail \in BOOLEAN : FlushList(p, fail)
        \/ FlushLock(p)
        \/ \E fail \in BOOLEAN : FlushDelete(p, fail)
        \/ FlushUnlock(p)
        \/ FlushRUnlock(p)
        \/ \E a \in AccessorInputs, fail \in BOOLEAN : ResolveCall(p, a, fail)
        \/ ResolveRLock(p)
        \/ \E fail \in BOOLEAN : ResolveGet(p, fail)
        \/ ResolveRUnlock(p)

Spec == Init /\ [][Next]_vars

\* Every call, and the deletion of accessor entries.
NextDelete ==
    \/ Next
    \/ \E p \in Procs :
          \/ \E a \in AccessorInputs, fail \in BOOLEAN : DeleteAccessorCall(p, a, fail)
          \/ DeleteAccessorLock(p)
          \/ \E fail \in BOOLEAN : DeleteAccessorDelete(p, fail)
          \/ DeleteAccessorUnlock(p)

SpecDelete == Init /\ [][NextDelete]_vars

\* A step of the call of goroutine p: a lock operation, a storage call that
\* returns, or the return of the call.
CallStep(p) ==
    \/ RegisterRLock(p)
    \/ \E fail \in BOOLEAN : RegisterGet1(p, fail)
    \/ RegisterRUnlock(p)
    \/ RegisterLock(p)
    \/ \E fail \in BOOLEAN : RegisterGet2(p, fail)
    \/ CreateAccessorFail(p)
    \/ CreateAccessorLock(p)
    \/ \E fail \in BOOLEAN : CreateAccessorPut(p, fail)
    \/ CreateAccessorUnlock(p)
    \/ \E fail \in BOOLEAN : RegisterPut(p, fail)
    \/ RegisterUnlock(p)
    \/ FlushRLock(p)
    \/ \E fail \in BOOLEAN : FlushList(p, fail)
    \/ FlushLock(p)
    \/ \E fail \in BOOLEAN : FlushDelete(p, fail)
    \/ FlushUnlock(p)
    \/ FlushRUnlock(p)
    \/ ResolveRLock(p)
    \/ \E fail \in BOOLEAN : ResolveGet(p, fail)
    \/ ResolveRUnlock(p)
    \/ DeleteAccessorLock(p)
    \/ \E fail \in BOOLEAN : DeleteAccessorDelete(p, fail)
    \/ DeleteAccessorUnlock(p)

\* Calls that meet on one lock slot: registrations of the SecretID s1 under
\* either role, flushes of r1, and lookups and deletions of the accessor of
\* the first registration.
NextFair ==
    \E p \in Procs :
        \/ \E r \in RoleNames : RegisterCall(p, r, "s1")
        \/ FlushCall(p, "r1")
        \/ ResolveCall(p, UUIDs[1], FALSE)
        \/ DeleteAccessorCall(p, UUIDs[1], FALSE)
        \/ CallStep(p)

\* The scheduler is fair: a goroutine whose next step stays possible takes
\* it, and every storage call returns.  A goroutine need not make a call.
Fairness == \A p \in Procs : WF_vars(CallStep(p))

SpecFair == Init /\ [][NextFair]_vars /\ Fairness

\* The steps of a register call after its start.
RegisterSteps(p) ==
    \/ RegisterRLock(p)
    \/ \E fail \in BOOLEAN : RegisterGet1(p, fail)
    \/ RegisterRUnlock(p)
    \/ RegisterLock(p)
    \/ \E fail \in BOOLEAN : RegisterGet2(p, fail)
    \/ CreateAccessorFail(p)
    \/ CreateAccessorLock(p)
    \/ \E fail \in BOOLEAN : CreateAccessorPut(p, fail)
    \/ CreateAccessorUnlock(p)
    \/ \E fail \in BOOLEAN : RegisterPut(p, fail)
    \/ RegisterUnlock(p)

\* Role names, SecretIDs and HMAC keys of registerSecretIDEntry that are
\* empty, of the greatest length accepted, or longer.
NameInputs ==
    {<<"r1", "s1", HmacKey>>, <<"r1", "s1", "">>,
     <<"", "s1", HmacKey>>, <<OversizedRoleName, "s1", HmacKey>>,
     <<"r1", "", HmacKey>>, <<"r1", LongestSecretID, HmacKey>>,
     <<"r1", OversizedSecretID, HmacKey>>}

\* Register calls with every kind of name and key.
NextInputs ==
    \E p \in Procs :
        \/ \E in \in NameInputs : RegisterCallWith(p, in[1], in[2], in[3], 0, 1)
        \/ RegisterSteps(p)

SpecInputs == Init /\ [][NextInputs]_vars

\* The SecretIDTTL of the entry handed to registerSecretIDEntry: negative,
\* zero, up to MaxLeaseTTL and above it; and the time of the call.
TTLInputs == (-1)..(MaxLeaseTTL + 1)
TimeInputs == {1, 2}

\* Register calls with every kind of TTL.
NextTTL ==
    \E p \in Callers :
        \/ \E ttl \in TTLInputs, now \in TimeInputs :
              RegisterCallWith(p, "r1", "s1", HmacKey, ttl, now)
        \/ RegisterSteps(p)

SpecTTL == Init /\ [][NextTTL]_vars

\* A call of createHMAC by itself.
CreateHMACCall(p, key, value) ==
    /\ pc[p] = "idle"
    /\ call' = [call EXCEPT ![p] = [NoCall EXCEPT !.op = "createHMAC",
                                       !.hmacKey = key, !.secretID = value]]
    /\ LET got == createHMAC(key, value)
       IN  Return(p, got.err, [kind |-> "hmac", hmac |-> got.hmac])
    /\ UNCHANGED <<storage, secretIDLocks, secretIDAccessorLocks,
                   secretIDListingLock, uuidCount, loc, hist>>

\* A call of deriveSecretIDTTL by itself, on a mount with the given maximum.
DeriveSecretIDTTLCall(p, secretIDTTL, maxLeaseTTL) ==
    /\ pc[p] = "idle"
    /\ call' = [call EXCEPT ![p] = [NoCall EXCEPT !.op = "deriveSecretIDTTL",
                                       !.secretIDTTL = secretIDTTL,
                                       !.maxLeaseTTL = maxLeaseTTL]]
    /\ Return(p, NoErr, [kind |-> "duration",
                         ttl |-> deriveSecretIDTTL(secretIDTTL, maxLeaseTTL)])
    /\ UNCHANGED <<storage, secretIDLocks, secretIDAccessorLocks,
                   secretIDListingLock, uuidCount, loc, hist>>

\* The keys, values and durations the two functions are called with.
HMACKeys == {"", HmacKey}
HMACValues == {"", "s1", LongSecretID, LongestSecretID, OversizedSecretID}
Durations == (-2)..(MaxLeaseTTL + 2)
MaxLeaseTTLs == (-1)..(MaxLeaseTTL + 1)

NextPure ==
    \E p \in Procs :
        \/ \E key \in HMACKeys, value \in HMACValues : CreateHMACCall(p, key, value)
        \/ \E d \in Durations, m \in MaxLeaseTTLs : DeriveSecretIDTTLCall(p, d, m)

\* The two pure functions, called by themselves.
SpecPure == Init /\ [][NextPure]_vars

\* The entry registerSecretIDEntry writes for a call of RegisterCall.
RegisteredEntry(secretIDAccessor) ==
    [StampedEntry(NewSecretEntry, 1) EXCEPT !.SecretIDAccessor = secretIDAccessor]

\* The storage after two SecretIDs have been registered for the first role.
RegisteredStorage ==
    LET roleNameHMAC == createHMAC(HmacKey, "r1").hmac
        Registered(s, secretID, secretIDAccessor) ==
            StoragePut(
                StoragePut(s, accessorEntryIndex(secretIDPrefix, secretIDAccessor),
                           [kind |-> "accessor",
                            SecretIDHMAC |-> createHMAC(HmacKey, secretID).hmac]),
                secretIDEntryIndex(secretIDPrefix, roleNameHMAC,
                                   createHMAC(HmacKey, secretID).hmac),
                RegisteredEntry(secretIDAccessor))
    IN  Registered(Registered([k \in {} |-> Nil], "s1", UUIDs[1]), "s2", UUIDs[2])

\* The backend after these two registrations have returned.
InitRegistered ==
    /\ storage = RegisteredStorage
    /\ secretIDLocks = [s \in Slots |-> FreeLock]
    /\ secretIDAccessorLocks = [s \in Slots |-> FreeLock]
    /\ secretIDListingLock = FreeLock
    /\ uuidCount = 2
    /\ pc = [p \in Procs |-> "idle"]
    /\ call = [p \in Procs |-> NoCall]
    /\ loc = [p \in Procs |-> NoLocals]
    /\ ret = [p \in Procs |-> NoReturn]
    /\ hist = [p \in Procs |-> NoHist]

\* Every call, on a backend that holds two SecretIDs of the first role.
SpecRegistered == InitRegistered /\ [][Next]_vars

\* Every call and the deletion of accessor entries, on that backend.
SpecRegisteredDelete == InitRegistered /\ [][NextDelete]_vars

\* The values of SecretIDNumUses and of its deprecated field in an entry an
\* earlier version wrote.
NumUsesInputs == 0..2

\* The storage of a backend that holds, for the first SecretID of the first
\* role, an entry an earlier version wrote.
LegacyStorage(numUses, numUsesDeprecated) ==
    LET secretIDHMAC == createHMAC(HmacKey, "s1").hmac
    IN  StoragePut(
            StoragePut([k \in {} |-> Nil],
                       accessorEntryIndex(secretIDPrefix, UUIDs[1]),
                       [kind |-> "accessor", SecretIDHMAC |-> secretIDHMAC]),
            secretIDEntryIndex(secretIDPrefix, createHMAC(HmacKey, "r1").hmac,
                               secretIDHMAC),
            [RegisteredEntry(UUIDs[1]) EXCEPT
                !.SecretIDNumUses = numUses,
                !.SecretIDNumUsesDeprecated = numUsesDeprecated])

InitLegacy ==
    /\ \E numUses \in NumUsesInputs, numUsesDeprecated \in NumUsesInputs :
          storage = LegacyStorage(numUses, numUsesDeprecated)
    /\ secretIDLocks = [s \in Slots |-> FreeLock]
    /\ secretIDAccessorLocks = [s \in Slots |-> FreeLock]
    /\ secretIDListingLock = FreeLock
    /\ uuidCount = 1
    /\ pc = [p \in Procs |-> "idle"]
    /\ call = [p \in Procs |-> NoCall]
    /\ loc = [p \in Procs |-> NoLocals]
    /\ ret = [p \in Procs |-> NoReturn]
    /\ hist = [p \in Procs |-> NoHist]

\* Register calls, with the write-back of the first read.  The second read
\* never finds an entry to reconcile: an entry it finds and the first read
\* did not was written in between, by a register call, with the deprecated
\* field 0.
NextLegacy ==
    \E p \in Procs :
        \/ \E s \in SecretIDs : RegisterCall(p, "r1", s)
        \/ RegisterSteps(p)
        \/ \E fail \in BOOLEAN : RegisterPersist1(p, fail)

\* Register calls on a backend that holds an entry of an earlier version.
SpecLegacy == InitLegacy /\ [][NextLegacy]_vars

(***************************************************************************)
(* Vocabulary of the properties                                            *)
(***************************************************************************)
IsRegister(p) == call[p].op = "register"
IsFlush(p) == call[p].op = "flush"
IsResolve(p) == call[p].op = "resolve"
Done(p) == pc[p] = "done"
Returns(p) == pc[p] # "done" /\ pc'[p] = "done"

AlreadyRegistered == "SecretID is already registered"
AccessorPutFailed == "failed to persist accessor index entry"
DeleteFailed == "error deleting SecretID from storage"

\* The storage keys of SecretID entries and of accessor entries.
PrimaryKeys(s) == {k \in DOMAIN s : Len(k) = 3}
AccessorKeys(s) == {k \in DOMAIN s : Len(k) = 2}

\* The storage key of the SecretID entry a register call is about.
EntryIndexOf(p) ==
    secretIDEntryIndex(call[p].roleSecretIDPrefix, loc[p].roleNameHMAC, loc[p].secretIDHMAC)

\* The register calls for the (role, SecretID) pair of p's call.
SamePair(p) ==
    {q \in Procs : /\ IsRegister(q)
                   /\ call[q].roleName = call[p].roleName
                   /\ call[q].secretID = call[p].secretID}

\* Some flush of the role has been called.
FlushCalled(roleName) == \E f \in Procs : IsFlush(f) /\ call[f].roleName = roleName

(***************************************************************************)
(* C1: concurrent register calls for one (role, SecretID) pair, the entry  *)
(* absent at first, with no storage failure and no flush of the role: when *)
(* all of them have returned, exactly one has succeeded and every other    *)
(* one has failed with "SecretID is already registered".                   *)
(***************************************************************************)
C1_ExactlyOneRegisters ==
    \A p \in Procs :
        ( /\ IsRegister(p)
          /\ Cardinality(SamePair(p)) >= 2
          /\ \A q \in SamePair(p) : Done(q) /\ ret[q].err \in {NoErr, AlreadyRegistered}
          /\ ~FlushCalled(call[p].roleName) )
        => /\ Cardinality({q \in SamePair(p) : ret[q].err = NoErr}) = 1
           /\ \A q \in SamePair(p) : ret[q].err = NoErr => ret[q].val = storage[EntryIndexOf(p)]

\* Two calls for one pair have returned, one with the entry and one with
\* "SecretID is already registered".
C1_Witness ==
    \E p, q \in Procs :
        /\ p # q /\ q \in SamePair(p) /\ IsRegister(p)
        /\ Done(p) /\ Done(q)
        /\ ret[p].err = NoErr /\ ret[q].err = AlreadyRegistered
        /\ ~FlushCalled(call[p].roleName)

AccessorEntryOf(s, k) == StorageGet(s, accessorEntryIndex(k[1], s[k].SecretIDAccessor))

C3_AccessorBeforePrimary ==
    /\ \A k \in PrimaryKeys(storage) :
          AccessorEntryOf(storage, k) = [kind |-> "accessor", SecretIDHMAC |-> k[3]]
    /\ \A p \in Procs :
          pc[p] = "r_put" =>
             /\ loc[p].err = NoErr
             /\ StorageGet(storage, accessorEntryIndex(call[p].roleSecretIDPrefix,
                                        loc[p].secretEntry.SecretIDAccessor))
                  = [kind |-> "accessor", SecretIDHMAC |-> loc[p].secretIDHMAC]
    /\ \A p \in Procs :
          (IsRegister(p) /\ Done(p) /\ ret[p].err = AccessorPutFailed) =>
             \A k \in PrimaryKeys(storage) :
                 storage[k].SecretIDAccessor # loc[p].secretEntry.SecretIDAccessor

\* A SecretID entry is in storage with its accessor entry, and another
\* register call has returned the error of its accessor write.
C3_Witness ==
    /\ PrimaryKeys(storage) # {}
    /\ \E p \in Procs : IsRegister(p) /\ Done(p) /\ ret[p].err = AccessorPutFailed

(***************************************************************************)
(* C4, as claimed: every SecretID entry in storage has exactly one         *)
(* accessor entry holding its HMAC, and no accessor entry holds an HMAC    *)
(* that two SecretID entries in storage have.                              *)
(***************************************************************************)
C4_OneAccessorPerDigest ==
    /\ \A k \in PrimaryKeys(storage) :
          Cardinality({a \in AccessorKeys(storage) : storage[a].SecretIDHMAC = k[3]}) = 1
    /\ \A a \in AccessorKeys(storage) :
          Cardinality({k \in PrimaryKeys(storage) : k[3] = storage[a].SecretIDHMAC}) <= 1

(***************************************************************************)
(* C4, amended: every SecretID entry in storage has exactly one accessor   *)
(* entry stored under the entry's own accessor, and it holds the entry's   *)
(* HMAC; no two SecretID entries in storage record the same accessor.      *)
(* Other accessor entries may hold the same HMAC: the one of the same      *)
(* SecretID under another role, and those a flush left behind.             *)
(***************************************************************************)
C4_OneAccessorPerEntry ==
    /\ \A k \in PrimaryKeys(storage) :
          Cardinality({a \in AccessorKeys(storage) :
                          /\ a = accessorEntryIndex(k[1], storage[k].SecretIDAccessor)
                          /\ storage[a].SecretIDHMAC = k[3]}) = 1
    /\ \A k1, k2 \in PrimaryKeys(storage) :
          storage[k1].SecretIDAccessor = storage[k2].SecretIDAccessor => k1 = k2

\* A SecretID was registered, flushed and registered again: its entry is in
\* storage, and so are the accessor entries of both registrations.
C4_Witness ==
    \E k \in PrimaryKeys(storage) :
        /\ \E f \in Procs : IsFlush(f) /\ Done(f) /\ k[3] \in loc[f].deleted
        /\ Cardinality({a \in AccessorKeys(storage) : storage[a].SecretIDHMAC = k[3]}) = 2

(***************************************************************************)
(* C5, as claimed: when a flush returns, every SecretID registered for its *)
(* role after it listed the role's keys is in storage, whatever else ran.  *)
(***************************************************************************)
RegisteredDuringSurvive(p) ==
    \A h \in hist[p].regDuring :
        secretIDEntryIndex(call[p].roleSecretIDPrefix, loc[p].roleNameHMAC, h) \in DOMAIN storage'

C5_RegisteredDuringFlushSurvives ==
    [][ \A p \in Procs : (IsFlush(p) /\ Returns(p)) => RegisteredDuringSurvive(p) ]_vars

(***************************************************************************)
(* C5, amended: when a flush returns and no other flush of its role ran    *)
(* while it ran, every SecretID registered for its role after it listed    *)
(* the role's keys is in storage.                                          *)
(***************************************************************************)
C5_SurvivesOneFlush ==
    [][ \A p \in Procs :
           (IsFlush(p) /\ Returns(p) /\ ~hist[p].flushOverlap) => RegisteredDuringSurvive(p)
      ]_vars

\* A flush that ran with no other flush of its role has deleted an entry and
\* returned, and a SecretID registered after its listing is in storage.
C5_Witness ==
    \E p \in Procs :
        /\ IsFlush(p) /\ Done(p) /\ ~hist[p].flushOverlap
        /\ loc[p].deleted # {}
        /\ hist[p].regDuring # {}
        /\ \A h \in hist[p].regDuring :
              secretIDEntryIndex(call[p].roleSecretIDPrefix, loc[p].roleNameHMAC, h)
                 \in DOMAIN storage

(***************************************************************************)
(* C6, as claimed: the enumerate-and-delete sections (from the listing to  *)
(* the last delete) of two flushes of one role never overlap.              *)
(***************************************************************************)
InFlushSection(p) == IsFlush(p) /\ pc[p] \in {"f_list", "f_lock", "f_delete", "f_unlock"}

C6_FlushesLinearized ==
    \A p, q \in Procs :
        (p # q /\ call[p].roleName = call[q].roleName)
        => ~(InFlushSection(p) /\ InFlushSection(q))

(***************************************************************************)
(* C6, amended: every flush holds the listing lock in read mode during its *)
(* enumerate-and-delete section, no call holds it in write mode, so the    *)
(* sections of two flushes of one role may overlap; what is exclusive is   *)
(* the delete of one entry: while a flush is between lock.Lock and         *)
(* lock.Unlock of an entry, it alone holds that SecretID lock.             *)
(***************************************************************************)
HoldsSecretIDLock(p, slot) ==
    \/ IsFlush(p) /\ pc[p] \in {"f_delete", "f_unlock"}
       /\ secretIDLock(loc[p].secretIDHMACs[loc[p].i]) = slot
    \/ IsRegister(p)
       /\ pc[p] \in {"r_get1", "r_persist1", "r_runlock", "r_get2", "r_persist2",
                     "r_checked", "c_put", "c_unlock", "r_put", "r_unlock"}
       /\ secretIDLock(loc[p].secretIDHMAC) = slot

C6_DeletesExclusive ==
    /\ secretIDListingLock.w = 0
    /\ \A p \in Procs : InFlushSection(p) => p \in secretIDListingLock.r
    /\ \A p \in Procs :
          (IsFlush(p) /\ pc[p] \in {"f_delete", "f_unlock"}) =>
             LET slot == secretIDLock(loc[p].secretIDHMACs[loc[p].i])
             IN  /\ secretIDLocks[slot] = [w |-> p, r |-> {}]
                 /\ \A q \in Procs \ {p} : ~HoldsSecretIDLock(q, slot)

\* Two flushes of one role are in their sections at once, one of them about
\* to delete an entry.
C6_Witness ==
    \E p, q \in Procs :
        /\ p # q /\ call[p].roleName = call[q].roleName
        /\ InFlushSection(p) /\ pc[p] = "f_delete"
        /\ InFlushSection(q) /\ pc[q] = "f_lock"

(***************************************************************************)
(* C7: when a flush returns without error and no register call for its     *)
(* role ran while it ran, no SecretID entry of the role is in storage.     *)
(***************************************************************************)
RoleEntries(s, roleSecretIDPrefix, roleNameHMAC) ==
    {k \in PrimaryKeys(s) : k[1] = roleSecretIDPrefix /\ k[2] = roleNameHMAC}

C7_FlushLeavesNoEntry ==
    [][ \A p \in Procs :
           (IsFlush(p) /\ Returns(p) /\ ret'[p].err = NoErr /\ ~hist[p].regOverlap)
           => RoleEntries(storage', call[p].roleSecretIDPrefix, loc[p].roleNameHMAC) = {}
      ]_vars

\* A flush has deleted the two entries of its role and returned without
\* error, no register call having run meanwhile; the role has no entry.
C7_Witness ==
    \E p \in Procs :
        /\ IsFlush(p) /\ Done(p) /\ ret[p].err = NoErr /\ ~hist[p].regOverlap
        /\ Cardinality(loc[p].deleted) = 2
        /\ RoleEntries(storage, call[p].roleSecretIDPrefix, loc[p].roleNameHMAC) = {}

(***************************************************************************)
(* C8, as claimed: once a SecretID was registered and a flush of its role  *)
(* has deleted its entry and returned without error, the lookup of its     *)
(* accessor by secretIDAccessorEntry finds nothing.                        *)
(***************************************************************************)
\* q registered its SecretID with this accessor, and a flush of the role has
\* since deleted the entry and returned without error.
RegisteredThenFlushed(q, secretIDAccessor) ==
    /\ IsRegister(q) /\ Done(q) /\ ret[q].err = NoErr
    /\ ret[q].val.SecretIDAccessor = secretIDAccessor
    /\ \E f \in Procs :
          /\ IsFlush(f) /\ Done(f) /\ ret[f].err = NoErr
          /\ call[f].roleName = call[q].roleName
          /\ loc[q].secretIDHMAC \in loc[f].deleted

\* The step of p is the s.Get of secretIDAccessorEntry, and it succeeds.
Resolves(p) ==
    IsResolve(p) /\ pc[p] = "a_get" /\ pc'[p] = "a_runlock" /\ loc'[p].err = NoErr

C8_FlushedAccessorNotFound ==
    [][ \A p, q \in Procs :
           (Resolves(p) /\ RegisteredThenFlushed(q, call[p].secretIDAccessor))
           => loc'[p].entry = Nil
      ]_vars

(***************************************************************************)
(* C8, amended: once a SecretID was registered and a flush of its role has *)
(* deleted its entry and returned without error, the lookup of its         *)
(* accessor by secretIDAccessorEntry still finds the accessor entry, which *)
(* holds the HMAC of the SecretID: the flush leaves it in storage, and     *)
(* nothing else here deletes it.                                           *)
(***************************************************************************)
C8_FlushedAccessorStillResolves ==
    [][ \A p, q \in Procs :
           (Resolves(p) /\ RegisteredThenFlushed(q, call[p].secretIDAccessor))
           => loc'[p].entry = [kind |-> "accessor", SecretIDHMAC |-> loc[q].secretIDHMAC]
      ]_vars

\* The lookup of the accessor of a registered and flushed SecretID has
\* returned the accessor entry, and the SecretID entry is not in storage.
C8_Witness ==
    \E p, q \in Procs :
        /\ IsResolve(p) /\ Done(p) /\ ret[p].err = NoErr
        /\ RegisteredThenFlushed(q, call[p].secretIDAccessor)
        /\ ret[p].val = [kind |-> "accessor", SecretIDHMAC |-> loc[q].secretIDHMAC]
        /\ EntryIndexOf(q) \notin DOMAIN storage

(***************************************************************************)
(* C9: a step of a flush of role R changes nothing in storage but SecretID *)
(* entries of R, which it can only remove: every accessor entry and every  *)
(* SecretID entry of another role stays as it is, and no key is added.     *)
(***************************************************************************)
C9_FlushFrame ==
    [][ \A p \in Procs :
           (IsFlush(p) /\ pc'[p] # pc[p]) =>
              /\ DOMAIN storage' \subseteq DOMAIN storage
              /\ \A k \in DOMAIN storage :
                    \/ k \in RoleEntries(storage, call[p].roleSecretIDPrefix, loc[p].roleNameHMAC)
                    \/ k \in DOMAIN storage' /\ storage'[k] = storage[k]
      ]_vars

\* A flush of one role has deleted the entry of a SecretID; the entry of the
\* same SecretID under another role and both accessor entries are in storage.
C9_Witness ==
    \E p \in Procs :
        /\ IsFlush(p) /\ Done(p)
        /\ \E h \in loc[p].deleted :
              /\ secretIDEntryIndex(call[p].roleSecretIDPrefix, loc[p].roleNameHMAC, h)
                    \notin DOMAIN storage
              /\ \E k \in PrimaryKeys(storage) : k[3] = h /\ k[2] # loc[p].roleNameHMAC
              /\ Cardinality({a \in AccessorKeys(storage) : storage[a].SecretIDHMAC = h}) = 2

(***************************************************************************)
(* C10: when a flush returns the error of a failed delete, it has stopped  *)
(* at the failing key: it has deleted exactly the keys listed before it,   *)
(* these are still absent (no register call for the role having run        *)
(* meanwhile), the failing key and the keys listed after it are still in   *)
(* storage (no other flush of the role having run meanwhile), and the flush *)
(* holds no lock.                                                          *)
(***************************************************************************)
HoldsNoLock(p, idLocks, accessorLocks, listingLock) ==
    /\ \A s \in Slots : idLocks[s].w # p /\ p \notin idLocks[s].r
    /\ \A s \in Slots : accessorLocks[s].w # p /\ p \notin accessorLocks[s].r
    /\ listingLock.w # p /\ p \notin listingLock.r

C10_FlushStopsAtFailure ==
    [][ \A p \in Procs :
           (IsFlush(p) /\ Returns(p) /\ ret'[p].err = DeleteFailed) =>
              LET keys == loc[p].secretIDHMACs
                  i == loc[p].i
                  Index(h) == secretIDEntryIndex(call[p].roleSecretIDPrefix,
                                                 loc[p].roleNameHMAC, h)
              IN  /\ i \in 1..Len(keys)
                  /\ loc[p].deleted = {keys[j] : j \in 1..(i - 1)}
                  /\ ~hist[p].regOverlap =>
                        \A j \in 1..(i - 1) : Index(keys[j]) \notin DOMAIN storage'
                  /\ ~hist[p].flushOverlap =>
                        \A j \in i..Len(keys) : Index(keys[j]) \in DOMAIN storage'
                  /\ HoldsNoLock(p, secretIDLocks', secretIDAccessorLocks',
                                 secretIDListingLock')
      ]_vars

\* A flush that listed two keys has deleted the first, failed to delete the
\* second and returned the error; the first is absent, the second in storage.
C10_Witness ==
    \E p \in Procs :
        /\ IsFlush(p) /\ Done(p) /\ ret[p].err = DeleteFailed
        /\ Len(loc[p].secretIDHMACs) = 2 /\ loc[p].i = 2
        /\ loc[p].deleted = {loc[p].secretIDHMACs[1]}
        /\ secretIDEntryIndex(call[p].roleSecretIDPrefix, loc[p].roleNameHMAC,
                              loc[p].secretIDHMACs[1]) \notin DOMAIN storage
        /\ secretIDEntryIndex(call[p].roleSecretIDPrefix, loc[p].roleNameHMAC,
                              loc[p].secretIDHMACs[2]) \in DOMAIN storage
        /\ HoldsNoLock(p, secretIDLocks, secretIDAccessorLocks, secretIDListingLock)

(***************************************************************************)
(* C11, as claimed: a flush that returns the error of a failed delete      *)
(* returns, with the error, the number of entries it deleted before.       *)
(***************************************************************************)
C11_FlushReturnsCount ==
    [][ \A p \in Procs :
           (IsFlush(p) /\ Returns(p) /\ ret'[p].err = DeleteFailed)
           => ret'[p].val = [kind |-> "count", n |-> Cardinality(loc[p].deleted)]
      ]_vars

(***************************************************************************)
(* C11, amended: a flush that fails part-way returns the first error and   *)
(* nothing else: the error is its only return value.  The number of        *)
(* entries it deleted before the failure, the number of keys listed before *)
(* the failing one, is not returned.                                       *)
(***************************************************************************)
C11_FlushReturnsOnlyError ==
    [][ \A p \in Procs :
           (IsFlush(p) /\ Returns(p) /\ loc[p].err # NoErr)
           => /\ ret'[p] = [err |-> loc[p].err, val |-> Nil]
              /\ loc[p].err = DeleteFailed
                    => Cardinality(loc[p].deleted) = loc[p].i - 1
      ]_vars

\* A flush has deleted one entry, failed to delete the next and returned the
\* error and no value.
C11_Witness ==
    \E p \in Procs :
        /\ IsFlush(p) /\ Done(p)
        /\ ret[p] = [err |-> DeleteFailed, val |-> Nil]
        /\ Cardinality(loc[p].deleted) = 1 /\ loc[p].i = 2

(***************************************************************************)
(* C12: a flush that returns without error, no register call for its role  *)
(* having run meanwhile, has deleted every key it listed and leaves no     *)
(* SecretID entry of the role, also when an earlier flush of the role      *)
(* failed part-way; and a flush that lists no key returns without error    *)
(* and none of its steps changes storage.                                  *)
(***************************************************************************)
\* Some other flush of p's role has returned the error of a failed delete.
FlushFailedBefore(p) ==
    \E a \in Procs \ {p} :
        /\ IsFlush(a) /\ Done(a) /\ call[a].roleName = call[p].roleName
        /\ ret[a].err = DeleteFailed

\* The keys a flush has listed.
Listed(p) == {loc[p].secretIDHMACs[j] : j \in 1..Len(loc[p].secretIDHMACs)}

C12_FlushResumable ==
    [][ \A p \in Procs :
           /\ (IsFlush(p) /\ Returns(p) /\ ret'[p].err = NoErr
                 /\ ~hist[p].regOverlap /\ FlushFailedBefore(p))
              => /\ loc[p].deleted = Listed(p)
                 /\ RoleEntries(storage', call[p].roleSecretIDPrefix,
                                loc[p].roleNameHMAC) = {}
           /\ (IsFlush(p) /\ pc'[p] # pc[p] /\ loc'[p].secretIDHMACs = <<>>)
              => /\ storage' = storage
                 /\ (Returns(p) /\ loc[p].err = NoErr) => ret'[p].err = NoErr
      ]_vars

\* Of two SecretIDs of a role, a flush deleted one and failed on the other;
\* a flush called after it returned has deleted the other and left no entry
\* of the role; a flush of a role without entries has returned without error.
C12_Witness ==
    \E p, a, q \in Procs :
        /\ IsFlush(p) /\ Done(p) /\ ret[p].err = NoErr
        /\ ~hist[p].regOverlap /\ ~hist[p].flushOverlap
        /\ IsFlush(a) /\ Done(a) /\ call[a].roleName = call[p].roleName
        /\ ret[a].err = DeleteFailed /\ Cardinality(loc[a].deleted) = 1
        /\ Cardinality(loc[p].deleted) = 1 /\ loc[p].deleted # loc[a].deleted
        /\ RoleEntries(storage, call[p].roleSecretIDPrefix, loc[p].roleNameHMAC) = {}
        /\ IsFlush(q) /\ Done(q) /\ ret[q].err = NoErr
        /\ call[q].roleName # call[p].roleName /\ loc[q].secretIDHMACs = <<>>

\* Two register calls leave the storage the backend of SpecRegistered starts with.
RegisteredStorageReached ==
    /\ storage = RegisteredStorage
    /\ \A p \in Procs : pc[p] \in {"idle", "done"}

(***************************************************************************)
(* C13: no goroutine requests a lock while it holds a lock of the same or  *)
(* of a later class, in the order listing lock, SecretID lock, accessor    *)
(* lock; none holds two locks of one class; and whenever calls are in      *)
(* progress, one of them can take its next step: there is no deadlock.     *)
(***************************************************************************)
IsDelete(p) == call[p].op = "delete"

HeldSecretIDSlots(p) == {s \in Slots : secretIDLocks[s].w = p \/ p \in secretIDLocks[s].r}
HeldAccessorSlots(p) ==
    {s \in Slots : secretIDAccessorLocks[s].w = p \/ p \in secretIDAccessorLocks[s].r}
HoldsListingLock(p) == secretIDListingLock.w = p \/ p \in secretIDListingLock.r

\* The lock class a goroutine is about to request.
RequestsListingLock(p) == pc[p] = "f_rlock"
RequestsSecretIDLock(p) == pc[p] \in {"r_rlock", "r_lock", "f_lock"}
RequestsAccessorLock(p) == MayCreate(p) \/ pc[p] \in {"a_rlock", "d_lock"}

\* A step of the call goroutine p is running.  A register call about to
\* create its accessor is taken to get its UUID and to request the accessor
\* lock: an error of uuid.GenerateUUID is not counted as a way out of a wait.
Proceeds(p) ==
    \/ RegisterRLock(p)
    \/ \E fail \in BOOLEAN : RegisterGet1(p, fail)
    \/ RegisterRUnlock(p)
    \/ RegisterLock(p)
    \/ \E fail \in BOOLEAN : RegisterGet2(p, fail)
    \/ CreateAccessorLock(p)
    \/ \E fail \in BOOLEAN : CreateAccessorPut(p, fail)
    \/ CreateAccessorUnlock(p)
    \/ \E fail \in BOOLEAN : RegisterPut(p, fail)
    \/ RegisterUnlock(p)
    \/ FlushRLock(p)
    \/ \E fail \in BOOLEAN : FlushList(p, fail)
    \/ FlushLock(p)
    \/ \E fail \in BOOLEAN : FlushDelete(p, fail)
    \/ FlushUnlock(p)
    \/ FlushRUnlock(p)
    \/ ResolveRLock(p)
    \/ \E fail \in BOOLEAN : ResolveGet(p, fail)
    \/ ResolveRUnlock(p)
    \/ DeleteAccessorLock(p)
    \/ \E fail \in BOOLEAN : DeleteAccessorDelete(p, fail)
    \/ DeleteAccessorUnlock(p)

\* The goroutine waits for a lock another goroutine holds.
Waits(p) == Running(p) /\ ~ENABLED Proceeds(p)

C13_NoDeadlock ==
    /\ \A p \in Procs :
          /\ RequestsListingLock(p) =>
                ~HoldsListingLock(p) /\ HeldSecretIDSlots(p) = {} /\ HeldAccessorSlots(p) = {}
          /\ RequestsSecretIDLock(p) =>
                HeldSecretIDSlots(p) = {} /\ HeldAccessorSlots(p) = {}
          /\ RequestsAccessorLock(p) => HeldAccessorSlots(p) = {}
          /\ Cardinality(HeldSecretIDSlots(p)) <= 1
          /\ Cardinality(HeldAccessorSlots(p)) <= 1
    /\ (\E p \in Procs : Running(p)) => \E p \in Procs : Running(p) /\ ~Waits(p)

\* A register call waits for the SecretID lock of another register call,
\* which holds it in write mode and waits for the accessor lock that a
\* deletion holds.
C13_Witness ==
    \E q, r, d \in Procs :
        /\ IsRegister(q) /\ pc[q] \in {"r_rlock", "r_lock"} /\ Waits(q)
        /\ IsRegister(r) /\ MayCreate(r) /\ Waits(r)
        /\ secretIDLocks[secretIDLock(loc[q].secretIDHMAC)].w = r
        /\ IsDelete(d) /\ pc[d] = "d_delete"
        /\ secretIDAccessorLocks[secretIDAccessorLock(UUIDs[uuidCount + 1])].w = d

(***************************************************************************)
(* C14: when a call of register (with its accessor creation), flush,       *)
(* accessor lookup or accessor deletion returns, whatever it returns, the  *)
(* goroutine holds no SecretID lock, no accessor lock and not the listing  *)
(* lock.  A cancelled context reaches these functions as the error of a    *)
(* storage call.                                                           *)
(***************************************************************************)
C14_NoLockHeldAtReturn ==
    [][ \A p \in Procs :
           Returns(p) => HoldsNoLock(p, secretIDLocks', secretIDAccessorLocks',
                                     secretIDListingLock')
      ]_vars

\* A register call whose accessor write failed, a flush whose listing failed
\* and an accessor deletion whose delete failed have returned their errors,
\* each after it had taken its locks, and every lock is free.
C14_Witness ==
    \E r, f, d \in Procs :
        /\ IsRegister(r) /\ Done(r) /\ ret[r].err = AccessorPutFailed
        /\ IsFlush(f) /\ Done(f) /\ ret[f].err = "storage: list failed"
        /\ IsDelete(d) /\ Done(d) /\ ret[d].err = "failed to delete accessor storage entry"
        /\ \A s \in Slots : secretIDLocks[s] = FreeLock /\ secretIDAccessorLocks[s] = FreeLock
        /\ secretIDListingLock = FreeLock

(***************************************************************************)
(* C15, as claimed: registerSecretIDEntry returns an error, before it      *)
(* takes a lock or calls storage, whenever the role name or the SecretID   *)
(* is empty or longer than 4096 bytes.                                     *)
(***************************************************************************)
\* The step of p is the start of a register call.
StartsRegister(p) == pc[p] = "idle" /\ pc'[p] # "idle" /\ call'[p].op = "register"

HMACErrors == {"failed to create HMAC of secret ID", "failed to create HMAC of role_name"}

\* The call of p returns an HMAC error in its first step, which leaves
\* storage and every lock as they are.
RejectedAtOnce(p) ==
    /\ pc'[p] = "done"
    /\ ret'[p].err \in HMACErrors /\ ret'[p].val = Nil
    /\ UNCHANGED <<storage, secretIDLocks, secretIDAccessorLocks, secretIDListingLock>>

C15_EmptyOrOversizedRejected ==
    [][ \A p \in Procs :
           (StartsRegister(p)
              /\ \/ StrLen(call'[p].roleName) = 0 \/ StrLen(call'[p].roleName) > 4096
                 \/ StrLen(call'[p].secretID) = 0 \/ StrLen(call'[p].secretID) > 4096)
           => RejectedAtOnce(p)
      ]_vars

(***************************************************************************)
(* C15, amended: registerSecretIDEntry returns an error, before it takes a *)
(* lock or calls storage, whenever the HMAC key is empty or the role name  *)
(* or the SecretID is longer than 4096 bytes.  In every other case, an     *)
(* empty role name or an empty SecretID included, it goes on to the check  *)
(* of the entry under the read lock.                                       *)
(***************************************************************************)
C15_OversizedRejected ==
    [][ \A p \in Procs :
           StartsRegister(p) =>
              IF \/ call'[p].hmacKey = ""
                 \/ StrLen(call'[p].roleName) > 4096
                 \/ StrLen(call'[p].secretID) > 4096
              THEN RejectedAtOnce(p)
              ELSE pc'[p] = "r_rlock" /\ ret'[p] = NoReturn
      ]_vars

\* A call with a SecretID of 4097 bytes and a call with an empty HMAC key
\* have returned their errors, and a call with an empty SecretID has
\* registered it.
C15_Witness ==
    \E p, q, r \in Procs :
        /\ IsRegister(p) /\ call[p].secretID = OversizedSecretID
        /\ Done(p) /\ ret[p].err = "failed to create HMAC of secret ID"
        /\ IsRegister(q) /\ call[q].hmacKey = "" /\ Done(q) /\ ret[q].err \in HMACErrors
        /\ IsRegister(r) /\ call[r].secretID = "" /\ Done(r) /\ ret[r].err = NoErr
        /\ EntryIndexOf(r) \in DOMAIN storage

(***************************************************************************)
(* C16: createHMAC(key, value) returns an error exactly when key is empty  *)
(* (invalid key) or value is longer than 4096 bytes (too large); it        *)
(* accepts a value of 4096 bytes; the digest of an accepted input is not   *)
(* empty, and two calls with the same key and value return the same.       *)
(***************************************************************************)
IsCreateHMAC(p) == call[p].op = "createHMAC"

C16_CreateHMACErrors ==
    \A p \in Procs :
        (IsCreateHMAC(p) /\ Done(p)) =>
            LET key == call[p].hmacKey
                value == call[p].secretID
            IN  /\ ret[p].err # NoErr <=> (key = "" \/ StrLen(value) > 4096)
                /\ key = "" => ret[p].err = "invalid HMAC key"
                /\ (key # "" /\ StrLen(value) > 4096)
                      => ret[p].err = "value is longer than maximum"
                /\ ret[p].err # NoErr <=> ret[p].val.hmac = ""
                /\ \A q \in Procs :
                      (IsCreateHMAC(q) /\ Done(q) /\ call[q] = call[p]) => ret[q] = ret[p]

\* Calls with values of 4095, 4096 and 4097 bytes under a key that is not
\* empty have returned: a digest for the first two, an error for the third.
C16_Witness ==
    \E p, q, r \in Procs :
        /\ IsCreateHMAC(p) /\ Done(p) /\ call[p].hmacKey # ""
        /\ StrLen(call[p].secretID) = 4095 /\ ret[p].err = NoErr
        /\ IsCreateHMAC(q) /\ Done(q) /\ call[q].hmacKey # ""
        /\ StrLen(call[q].secretID) = 4096 /\ ret[q].err = NoErr
        /\ ret[q].val.hmac # ret[p].val.hmac
        /\ IsCreateHMAC(r) /\ Done(r) /\ call[r].hmacKey # ""
        /\ StrLen(call[r].secretID) = 4097 /\ ret[r].err # NoErr

(***************************************************************************)
(* C17: deriveSecretIDTTL returns the mount's maximum when the TTL asked   *)
(* for is negative or above the maximum, and the TTL asked for otherwise;  *)
(* with a maximum that is not negative, a TTL of 0 comes back as 0 and the *)
(* result lies between 0 and the maximum.                                  *)
(***************************************************************************)
IsDeriveSecretIDTTL(p) == call[p].op = "deriveSecretIDTTL"

C17_DerivedTTL ==
    \A p \in Procs :
        (IsDeriveSecretIDTTL(p) /\ Done(p)) =>
            LET requested == call[p].secretIDTTL
                max == call[p].maxLeaseTTL
                got == ret[p].val.ttl
            IN  /\ (requested < 0 \/ requested > max) => got = max
                /\ (requested >= 0 /\ requested <= max) => got = requested
                /\ (requested = 0 /\ max >= 0) => got = 0
                /\ max >= 0 => (got >= 0 /\ got <= max)

\* Calls with a negative TTL, with 0 and with a TTL above the maximum have
\* returned the maximum, 0 and the maximum.
C17_Witness ==
    \E p, q, r \in Procs :
        /\ IsDeriveSecretIDTTL(p) /\ Done(p) /\ call[p].secretIDTTL = -1
        /\ call[p].maxLeaseTTL = 2 /\ ret[p].val.ttl = 2
        /\ IsDeriveSecretIDTTL(q) /\ Done(q) /\ call[q].secretIDTTL = 0
        /\ call[q].maxLeaseTTL = 2 /\ ret[q].val.ttl = 0
        /\ IsDeriveSecretIDTTL(r) /\ Done(r) /\ call[r].secretIDTTL = 3
        /\ call[r].maxLeaseTTL = 2 /\ ret[r].val.ttl = 2

(***************************************************************************)
(* C18: the entry a successful register call stores and returns has its    *)
(* creation time and its last update time equal to the time of the call;   *)
(* its expiration time is the zero time when the effective TTL (the TTL    *)
(* asked for, or the maximum when that is negative or above the maximum)   *)
(* is zero, and never the time of the call then; otherwise it is the       *)
(* creation time plus the effective TTL.                                   *)
(***************************************************************************)
C18_EntryTimes ==
    \A p \in Procs :
        (IsRegister(p) /\ Done(p) /\ ret[p].err = NoErr) =>
            LET e == ret[p].val
                now == call[p].currentTime
                requested == call[p].secretIDTTL
                effective == IF requested < 0 \/ requested > MaxLeaseTTL
                             THEN MaxLeaseTTL ELSE requested
            IN  /\ EntryIndexOf(p) \in DOMAIN storage /\ storage[EntryIndexOf(p)] = e
                /\ e.CreationTime = now /\ e.LastUpdatedTime = now
                /\ effective = 0 => (e.ExpirationTime = ZeroTime /\ e.ExpirationTime # now)
                /\ effective # 0 => e.ExpirationTime = e.CreationTime + effective

\* A call at time 2 with a TTL of 0 has registered an entry that never
\* expires.
C18_Witness ==
    \E p \in Procs :
        /\ IsRegister(p) /\ Done(p) /\ ret[p].err = NoErr
        /\ call[p].secretIDTTL = 0 /\ call[p].currentTime = 2
        /\ storage[EntryIndexOf(p)].CreationTime = 2
        /\ storage[EntryIndexOf(p)].ExpirationTime = ZeroTime

\* A call at time 2 with a negative TTL has registered an entry that
\* expires after the maximum lease TTL.
C18_WitnessClamped ==
    \E p \in Procs :
        /\ IsRegister(p) /\ Done(p) /\ ret[p].err = NoErr
        /\ call[p].secretIDTTL = -1 /\ call[p].currentTime = 2
        /\ storage[EntryIndexOf(p)].ExpirationTime = 2 + MaxLeaseTTL

(***************************************************************************)
(* C19: the SecretIDTTL of every SecretID entry in storage lies between 0  *)
(* and the mount's maximum lease TTL, whatever TTL the call asked for.     *)
(***************************************************************************)
C19_StoredTTLBounded ==
    \A k \in PrimaryKeys(storage) :
        storage[k].SecretIDTTL >= 0 /\ storage[k].SecretIDTTL <= MaxLeaseTTL

(***************************************************************************)
(* C20: once createSecretIDAccessorEntry has returned without error for a  *)
(* SecretID HMAC, a lookup of the accessor it generated, under the same    *)
(* prefix, whose storage read succeeds finds the accessor entry holding    *)
(* that HMAC, as long as no deletion of that accessor has been done.       *)
(***************************************************************************)
\* The register call q has created this accessor: its call of
\* createSecretIDAccessorEntry has returned nil.
AccessorCreated(q, secretIDAccessor) ==
    /\ IsRegister(q) /\ pc[q] \in {"r_put", "r_unlock", "done"}
    /\ loc[q].secretEntry.SecretIDAccessor = secretIDAccessor
    /\ loc[q].err # AccessorPutFailed

\* Some deletion of this accessor has made its storage delete.
AccessorDeleted(secretIDAccessor) ==
    \E d \in Procs :
        /\ IsDelete(d) /\ call[d].secretIDAccessor = secretIDAccessor
        /\ pc[d] \in {"d_unlock", "done"} /\ loc[d].err = NoErr

C20_CreatedAccessorResolves ==
    [][ \A p, q \in Procs :
           (Resolves(p) /\ AccessorCreated(q, call[p].secretIDAccessor)
              /\ call[p].roleSecretIDPrefix = call[q].roleSecretIDPrefix
              /\ ~AccessorDeleted(call[p].secretIDAccessor))
           => loc'[p].entry = [kind |-> "accessor", SecretIDHMAC |-> loc[q].secretIDHMAC]
      ]_vars

\* A lookup has returned the entry of an accessor a register call created,
\* while a deletion of that accessor waits for the accessor lock.
C20_Witness ==
    \E p, q, d \in Procs :
        /\ IsResolve(p) /\ pc[p] = "a_runlock" /\ loc[p].err = NoErr
        /\ AccessorCreated(q, call[p].secretIDAccessor)
        /\ loc[p].entry = [kind |-> "accessor", SecretIDHMAC |-> loc[q].secretIDHMAC]
        /\ IsDelete(d) /\ call[d].secretIDAccessor = call[p].secretIDAccessor
        /\ pc[d] = "d_lock"

(***************************************************************************)
(* C21: deleteSecretIDAccessorEntry is idempotent.  Its storage delete,    *)
(* when the storage call does not fail, succeeds whether or not the entry  *)
(* is there, removes the accessor entry and nothing else, and changes      *)
(* nothing when the entry was already gone; the deletion then returns nil. *)
(* An accessor entry that is gone comes back only by the write of the      *)
(* register call that generated the accessor.  A lookup whose storage read *)
(* succeeds on an accessor with no entry returns a nil entry and a nil     *)
(* error, the same for an accessor that was deleted as for one that never  *)
(* existed.                                                                *)
(***************************************************************************)
\* The storage key of the accessor entry a lookup or a deletion is about.
AccessorIndexOf(p) ==
    accessorEntryIndex(call[p].roleSecretIDPrefix, call[p].secretIDAccessor)

\* The step of p is the s.Delete of deleteSecretIDAccessorEntry.
Deletes(p) == IsDelete(p) /\ pc[p] = "d_delete" /\ pc'[p] = "d_unlock"

C21_DeleteIdempotent ==
    [][ \A p \in Procs :
           /\ (IsDelete(p) /\ pc[p] = "d_delete")
                 => ENABLED (DeleteAccessorDelete(p, FALSE) /\ loc'[p].err = NoErr)
           /\ (Deletes(p) /\ loc'[p].err = NoErr)
                 => /\ AccessorIndexOf(p) \notin DOMAIN storage'
                    /\ \A k \in DOMAIN storage \ {AccessorIndexOf(p)} :
                          k \in DOMAIN storage' /\ storage'[k] = storage[k]
                    /\ AccessorIndexOf(p) \notin DOMAIN storage => storage' = storage
           /\ (Returns(p) /\ IsDelete(p) /\ pc[p] = "d_unlock" /\ loc[p].err = NoErr)
                 => ret'[p].err = NoErr
           /\ \A k \in AccessorKeys(storage') \ AccessorKeys(storage) :
                 \E q \in Procs :
                    /\ IsRegister(q) /\ pc[q] = "c_put" /\ pc'[q] = "c_unlock"
                    /\ k = accessorEntryIndex(call[q].roleSecretIDPrefix,
                                              loc[q].secretEntry.SecretIDAccessor)
           /\ (Resolves(p) /\ AccessorIndexOf(p) \notin DOMAIN storage)
                 => loc'[p].entry = Nil
           /\ (Returns(p) /\ IsResolve(p) /\ pc[p] = "a_runlock"
                 /\ loc[p].err = NoErr /\ loc[p].entry = Nil)
                 => ret'[p] = [err |-> NoErr, val |-> Nil]
      ]_vars

\* The accessor of a registered SecretID has been deleted twice, both
\* deletions have returned nil, and a lookup that read storage after them
\* has found nothing: it holds the read lock the deletions had to take in
\* write mode.
C21_Witness ==
    \E p, d, e \in Procs :
        /\ d # e
        /\ IsDelete(d) /\ Done(d) /\ ret[d].err = NoErr
        /\ IsDelete(e) /\ Done(e) /\ ret[e].err = NoErr
        /\ call[d].secretIDAccessor = UUIDs[1] /\ call[e].secretIDAccessor = UUIDs[1]
        /\ IsResolve(p) /\ call[p].secretIDAccessor = UUIDs[1]
        /\ pc[p] = "a_runlock" /\ loc[p].err = NoErr /\ loc[p].entry = Nil
        /\ AccessorIndexOf(p) \notin DOMAIN storage

(***************************************************************************)
(* C22, as claimed: verifyCIDRRoleSecretIDSubset reads an address with no  *)
(* mask in the SecretID's CIDR list as a host-only block: a call with both *)
(* lists non-empty returns nil exactly when every block of the SecretID's  *)
(* list, so read, lies within the role's blocks.                           *)
(***************************************************************************)
IsVerify(p) == call[p].op = "verify"

\* The block a string stands for when an address with no mask is host-only.
HostOnly(block) == IF block.slash THEN block ELSE Block(block.ip, 32)

\* The blocks of a list, addresses with no mask read as host-only blocks.
HostOnlyBlocks(list) == {HostOnly(list[i]) : i \in 1..Len(list)}

BothListsGiven(p) ==
    Len(call[p].secretIDCIDRs) # 0 /\ Len(call[p].roleBoundCIDRList) # 0

C23_EmptyListAccepted ==
    \A p \in Procs :
        (IsVerify(p) /\ ~BothListsGiven(p))
        => /\ pc[p] \in {"v_check", "done"}
           /\ Done(p) => ret[p] = [err |-> NoErr, val |-> Verified(FALSE)]

\* A call has returned nil for a SecretID list that holds an address with
\* no mask, which the subset evaluation would refuse, under a role with no
\* bound CIDR.
C23_Witness ==
    \E p \in Procs :
        /\ IsVerify(p) /\ Done(p) /\ ret[p].err = NoErr
        /\ call[p].roleBoundCIDRList = <<>>
        /\ call[p].secretIDCIDRs = <<Address(<<10, 0, 0, 1>>)>>

(***************************************************************************)
(* C24: verifyCIDRRoleSecretIDSubset only reads the role's bound CIDR      *)
(* list: at every point of the call, and after it, the caller's            *)
(* roleBoundCIDRList holds the strings it held when the call was made.     *)
(***************************************************************************)
C24_RoleListUnchanged ==
    \A p \in Procs :
        IsVerify(p) => loc[p].roleBoundCIDRList = call[p].roleBoundCIDRList

(***************************************************************************)
(* C25: the read of a SecretID entry reconciles the deprecated use count.  *)
(* When the stored deprecated field is not 0 and differs from              *)
(* SecretIDNumUses, both fields of the entry read are the smaller of the   *)
(* two values that is not 0 (the deprecated one when SecretIDNumUses is    *)
(* 0), and the read goes on to one write, which stores that entry.  When   *)
(* the deprecated field is 0 or the fields agree, the entry is read as     *)
(* stored and the read writes nothing: so it is for an entry a read has    *)
(* reconciled.                                                             *)
(***************************************************************************)
\* The step of p is the s.Get of a read of its SecretID entry, it succeeds
\* and finds an entry.
ReadsEntry(p) ==
    /\ IsRegister(p) /\ pc[p] \in {"r_get1", "r_get2"} /\ pc'[p] # pc[p]
    /\ loc'[p].err = NoErr /\ EntryIndexOf(p) \in DOMAIN storage

\* The use count an entry is reconciled to.
SmallerNonZero(numUses, numUsesDeprecated) ==
    IF numUses = 0 THEN numUsesDeprecated
    ELSE IF numUsesDeprecated < numUses THEN numUsesDeprecated ELSE numUses

\* The step of p is the write-back of the entry it read.
Rewrites(p) ==
    IsRegister(p) /\ pc[p] \in {"r_persist1", "r_persist2"} /\ pc'[p] # pc[p]

C25_UseCountReconciled ==
    [][ \A p \in Procs :
           /\ ReadsEntry(p) =>
                LET stored == storage[EntryIndexOf(p)]
                    legacy == stored.SecretIDNumUsesDeprecated
                IN  IF legacy # 0 /\ legacy # stored.SecretIDNumUses
                    THEN /\ loc'[p].entry =
                              [stored EXCEPT
                                 !.SecretIDNumUses = SmallerNonZero(stored.SecretIDNumUses, legacy),
                                 !.SecretIDNumUsesDeprecated = SmallerNonZero(stored.SecretIDNumUses, legacy)]
                         /\ loc'[p].entry.SecretIDNumUses # 0
                         /\ pc'[p] \in {"r_persist1", "r_persist2"}
                         /\ storage' = storage
                    ELSE /\ loc'[p].entry = stored
                         /\ pc'[p] \notin {"r_persist1", "r_persist2"}
                         /\ storage' = storage
           /\ Rewrites(p) =>
                /\ pc'[p] \notin {"r_persist1", "r_persist2"}
                /\ \/ loc'[p].err # NoErr /\ storage' = storage
                   \/ /\ loc'[p].err = NoErr
                      /\ storage' = StoragePut(storage, EntryIndexOf(p), loc[p].entry)
                      /\ loc[p].entry.SecretIDNumUses = loc[p].entry.SecretIDNumUsesDeprecated
      ]_vars

\* Two register calls have read a stored entry whose fields differed, and
\* one has rewritten it and returned: storage holds the entry with both
\* fields 1, which is the entry the other call has read and is yet to write.
C25_Witness ==
    \E p, q \in Procs :
        /\ p # q /\ q \in SamePair(p)
        /\ IsRegister(p) /\ Done(p) /\ ret[p].err = AlreadyRegistered
        /\ pc[q] = "r_persist1"
        /\ loc[q].entry.SecretIDNumUses = 1
        /\ loc[q].entry.SecretIDNumUsesDeprecated = 1
        /\ storage[EntryIndexOf(q)] = loc[q].entry

(***************************************************************************)
(* C28: every step that writes a SecretID entry, the first write of a      *)
(* register call as well as the write-back of a reconciled entry, is taken *)
(* by a goroutine that holds the lock of the SecretID in write mode.       *)
(***************************************************************************)
C28_WrittenUnderWriteLock ==
    [][ \A k \in PrimaryKeys(storage') :
           (k \notin DOMAIN storage \/ storage'[k] # storage[k])
           => \E p \in Procs :
                 /\ pc'[p] # pc[p]
                 /\ secretIDLocks[secretIDLock(k[3])].w = p
      ]_vars

(***************************************************************************)
(* C26: a storage failure is returned, never retried nor swallowed.  When  *)
(* the Get, Put, Delete or List of a register call, of its accessor        *)
(* creation, of a lookup, of a deletion or of a flush fails, the step      *)
(* leaves storage as it was and records an error; from then on the call    *)
(* makes no storage call and no storage write, keeps that error and        *)
(* returns it.  So a register call whose accessor write has failed never   *)
(* writes its SecretID entry.                                              *)
(***************************************************************************)
\* The positions at which a call makes a storage call.
StorageCallLabels ==
    {"r_get1", "r_persist1", "r_get2", "r_persist2", "c_put", "r_put",
     "f_list", "f_delete", "a_get", "d_delete"}

\* The storage call of p, failing or not.
StorageCall(p, fail) ==
    \/ RegisterGet1(p, fail)
    \/ RegisterGet2(p, fail)
    \/ CreateAccessorPut(p, fail)
    \/ RegisterPut(p, fail)
    \/ FlushList(p, fail)
    \/ FlushDelete(p, fail)
    \/ ResolveGet(p, fail)
    \/ DeleteAccessorDelete(p, fail)

C26_StorageFailureSurfaced ==
    [][ \A p \in Procs :
           /\ pc[p] \in StorageCallLabels
                => /\ loc[p].err = NoErr
                   /\ ENABLED (/\ StorageCall(p, TRUE)
                               /\ loc'[p].err # NoErr
                               /\ storage' = storage)
           /\ (Running(p) /\ loc[p].err # NoErr /\ pc'[p] # pc[p])
                => /\ storage' = storage
                   /\ pc'[p] \notin StorageCallLabels
                   /\ IF pc'[p] = "done"
                      THEN ret'[p].err = loc[p].err
                      ELSE loc'[p].err = loc[p].err
      ]_vars

\* A register call has returned the error of its accessor write, and
\* storage holds neither its SecretID entry nor any accessor entry.
C26_Witness ==
    \E p \in Procs :
        /\ IsRegister(p) /\ Done(p) /\ ret[p].err = AccessorPutFailed
        /\ EntryIndexOf(p) \notin DOMAIN storage
        /\ AccessorKeys(storage) = {}

(***************************************************************************)
(* C27: a list of the CEL roles with no after and no limit whose storage   *)
(* call succeeds returns exactly the names of the roles in storage: a role *)
(* pathCelRoleCreate has stored and no pathCelRoleDelete has removed is    *)
(* among the keys, and a role that was deleted is not.                     *)
(***************************************************************************)
IsCelList(p) == call[p].op = "celList"

\* The names of the CEL roles in storage.
StoredCelRoles(s) == {n \in CelNameInputs : celRoleIndex(n) \in DOMAIN s}

C27_ListReturnsStoredRoles ==
    [][ \A p \in Procs :
           (/\ pc[p] = "idle" /\ pc'[p] = "done" /\ call'[p].op = "celList"
            /\ call'[p].secretID = "" /\ call'[p].secretIDTTL = 0
            /\ ret'[p].err = NoErr)
           => {ret'[p].val.keys[i] : i \in DOMAIN ret'[p].val.keys} = StoredCelRoles(storage)
      ]_vars

(***************************************************************************)
(* C29: register calls for different SecretIDs do not wait for one lock.   *)
(* A register call past its lock.Lock() holds, of the SecretID locks, the  *)
(* one of its own SecretID HMAC in write mode and no other; a call at      *)
(* lock.Lock() holds none and takes the lock as soon as its own slot is    *)
(* free, whatever other slots are held.  So two calls whose HMACs map to   *)
(* different slots hold their write locks at the same time, and either     *)
(* can return first.                                                       *)
(***************************************************************************)
\* The positions of a register call between lock.Lock() and its Unlock.
RegisterWriteSection ==
    {"r_get2", "r_persist2", "r_checked", "c_put", "c_unlock", "r_put", "r_unlock"}

C29_RegistersLockOwnSlot ==
    \A p \in Procs :
        IsRegister(p) =>
            LET slot == secretIDLock(loc[p].secretIDHMAC)
            IN  /\ pc[p] \in RegisterWriteSection
                    => secretIDLocks[slot].w = p /\ HeldSecretIDSlots(p) = {slot}
                /\ pc[p] = "r_lock"
                    => /\ HeldSecretIDSlots(p) = {}
                       /\ CanLock(secretIDLocks[slot]) => ENABLED RegisterLock(p)

\* Two register calls for two SecretIDs of one role have both written their
\* entries and hold the write locks of two slots, and each can unlock and
\* return before the other.
C29_Witness ==
    \E p, q \in Procs :
        /\ IsRegister(p) /\ IsRegister(q)
        /\ call[p].roleName = call[q].roleName /\ call[p].secretID # call[q].secretID
        /\ secretIDLock(loc[p].secretIDHMAC) # secretIDLock(loc[q].secretIDHMAC)
        /\ pc[p] = "r_unlock" /\ pc[q] = "r_unlock"
        /\ loc[p].err = NoErr /\ loc[q].err = NoErr
        /\ secretIDLocks[secretIDLock(loc[p].secretIDHMAC)].w = p
        /\ secretIDLocks[secretIDLock(loc[q].secretIDHMAC)].w = q
        /\ ENABLED RegisterUnlock(p) /\ ENABLED RegisterUnlock(q)

(***************************************************************************)
(* C30, as claimed: once registerSecretIDEntry has returned an error,      *)
(* storage holds no accessor entry that the call created.                  *)
(***************************************************************************)
\* The storage key of the accessor entry of the accessor p has generated.
CreatedAccessorIndex(p) ==
    accessorEntryIndex(call[p].roleSecretIDPrefix, loc[p].secretEntry.SecretIDAccessor)

PutFailed == "storage: put failed"

HasRegistered(q) ==
    /\ IsRegister(q) /\ pc[q] \in {"r_unlock", "done"}
    /\ loc[q].err = NoErr /\ loc[q].secretEntry.SecretIDAccessor # ""

\* loc[p].entry is what the last check of the register call p has read, and
\* a call that has written its entry stays in HasRegistered.
C31_DuplicatePerPair ==
    \A p \in Procs :
        /\ (IsRegister(p) /\ loc[p].entry # Nil)
              => \E q \in SamePair(p) \ {p} : HasRegistered(q)
        /\ \A q \in Procs :
              (IsRegister(p) /\ IsRegister(q) /\ Running(p) /\ Running(q)
                 /\ call[p].secretID = call[q].secretID)
              => secretIDLock(loc[p].secretIDHMAC) = secretIDLock(loc[q].secretIDHMAC)
        /\ \A q \in Procs \ {p} :
              (HasRegistered(p) /\ HasRegistered(q))
              => loc[p].secretEntry.SecretIDAccessor # loc[q].secretEntry.SecretIDAccessor

\* One SecretID has been registered under both roles: both calls have
\* returned their entries, with different accessors, and both entries are
\* in storage.
C31_Witness ==
    \E p, q \in Procs :
        /\ IsRegister(p) /\ IsRegister(q)
        /\ call[p].roleName = "r1" /\ call[q].roleName = "r2"
        /\ call[p].secretID = call[q].secretID
        /\ Done(p) /\ ret[p].err = NoErr /\ Done(q) /\ ret[q].err = NoErr
        /\ ret[p].val.SecretIDAccessor # ret[q].val.SecretIDAccessor
        /\ secretIDLock(loc[p].secretIDHMAC) = secretIDLock(loc[q].secretIDHMAC)
        /\ storage[EntryIndexOf(p)] = ret[p].val /\ storage[EntryIndexOf(q)] = ret[q].val

(***************************************************************************)
(* C32: under a fair scheduler and storage calls that return, every        *)
(* register, flush, accessor resolve and accessor delete call that has     *)
(* been made returns; in particular a register call that has released its  *)
(* read lock and waits for the write lock of the same slot gets it.        *)
(***************************************************************************)
C32_EveryCallReturns ==
    \A p \in Procs : Running(p) ~> Done(p)

\* A register call has released its read lock and waits for the write lock
\* of its slot, which a register call holds in write mode while a flush
\* waits for the same slot.
C32_Witness ==
    \E p, q, f \in Procs :
        /\ IsRegister(p) /\ pc[p] = "r_lock" /\ Waits(p)
        /\ IsRegister(q) /\ q # p /\ pc[q] \in RegisterWriteSection
        /\ secretIDLock(loc[q].secretIDHMAC) = secretIDLock(loc[p].secretIDHMAC)
        /\ IsFlush(f) /\ pc[f] = "f_lock" /\ Waits(f)

(***************************************************************************)
(* C33: every CEL role entry that pathCelRoleCreate or pathCelRolePatch    *)
(* writes to storage has the failure policy "Deny" or "Modify", and "Deny" *)
(* when the request gives none; a request with another failure policy      *)
(* stores nothing.                                                         *)
(***************************************************************************)
IsCelWrite(c) == c.op \in {"celCreate", "celPatch"}

C33_FailurePolicyValid ==
    [][ \A p \in Procs :
           (pc[p] = "idle" /\ pc'[p] = "done" /\ IsCelWrite(call'[p]))
           => /\ storage' # storage
                 => /\ storage' = StoragePut(storage, celRoleIndex(call'[p].roleName),
                                             storage'[celRoleIndex(call'[p].roleName)])
                    /\ storage'[celRoleIndex(call'[p].roleName)].FailurePolicy
                          = IF call'[p].hmacKey = "" THEN "Deny" ELSE call'[p].hmacKey
                    /\ storage'[celRoleIndex(call'[p].roleName)].FailurePolicy
                          \in {"Deny", "Modify"}
              /\ call'[p].hmacKey \notin {"", "Deny", "Modify"} => storage' = storage
      ]_vars

\* A create request without a failure policy has stored a role with "Deny";
\* a create request with the policy "Allow" has been refused and a patch
\* request for the stored role has ended in the panic, the role as it was.
C33_Witness ==
    \E p, q, r \in Procs :
        /\ Done(p) /\ call[p].op = "celCreate" /\ call[p].hmacKey = "" /\ ret[p].err = NoErr
        /\ ret[p].val.kind = "response"
        /\ StorageGet(storage, celRoleIndex(call[p].roleName)) = ret[p].val.data
        /\ ret[p].val.data.FailurePolicy = "Deny"
        /\ Done(q) /\ call[q].op = "celCreate" /\ call[q].hmacKey = "Allow"
        /\ ret[q].val = ErrorResponse("failure_policy must be 'Deny' or 'Modify'")
        /\ Done(r) /\ call[r].op = "celPatch" /\ call[r].roleName = call[p].roleName
        /\ call[r].hmacKey = "Allow" /\ ret[r].err = PanicInterfaceConversion

(***************************************************************************)
(* C34: in every interleaving of deleteIssuer and purgeIssuers calls, with *)
(* storage calls that may fail, the default issuer of the configuration is *)
(* none or an issuer in storage; deleteIssuer deletes an issuer only when  *)
(* the configuration no longer names it as default; and it returns         *)
(* wasDefault = true exactly when its read of the configuration succeeded  *)
(* and the configuration named the issuer as default.                      *)
(***************************************************************************)
StoredDefault(s) == getIssuersConfig(s).DefaultIssuerID
StoredIssuers(s) == {id \in IssuerIDInputs : issuerIndex(id) \in DOMAIN s}

DefaultIssuerStored(s) == StoredDefault(s) = "" \/ StoredDefault(s) \in StoredIssuers(s)

\* The steps keep the default among the stored issuers, and delete no
\* issuer the configuration names as default.
ClearedBeforeDeleted ==
    /\ DefaultIssuerStored(storage) /\ DefaultIssuerStored(storage')
    /\ \A id \in StoredIssuers(storage) \ StoredIssuers(storage') :
          StoredDefault(storage) # id

\* deleteIssuer returns the wasDefault it has set after its read.
WasDefaultReturned(p) ==
    (call[p].op = "deleteIssuer" /\ Returns(p) /\ pc[p] # "di_get")
    => ret'[p].val = WasDefault(loc[p].wasDefault)

ReadsConfig(p) == pc[p] = "di_get" /\ pc'[p] # "di_get"
ConfigReadFailed(p) == pc'[p] = "done" /\ ret'[p].err = "storage: get failed"

C34_DefaultClearedFirst ==
    [][ /\ ClearedBeforeDeleted
        /\ \A p \in Procs :
              /\ WasDefaultReturned(p)
              /\ (call[p].op = "deleteIssuer" /\ ReadsConfig(p))
                 => (loc'[p].wasDefault
                       <=> (~ConfigReadFailed(p) /\ StoredDefault(storage) = loc[p].id))
      ]_vars

\* The claim as stated: wasDefault is true exactly when the configuration
\* named the issuer as default when deleteIssuer was entered.
C34_WasDefaultOnEntry ==
    [][ /\ ClearedBeforeDeleted
        /\ \A p \in Procs :
              /\ WasDefaultReturned(p)
              /\ (call[p].op = "deleteIssuer" /\ ReadsConfig(p))
                 => (loc'[p].wasDefault <=> StoredDefault(storage) = loc[p].id)
      ]_vars

\* deleteIssuer of the default issuer has failed at its write of the
\* configuration, which still names the issuer, and has returned
\* wasDefault = true; a later deleteIssuer of the same issuer has cleared
\* the default, deleted the issuer and returned wasDefault = true.
C34_Witness ==
    \E p, q \in Procs :
        /\ call[p].op = "deleteIssuer" /\ call[q].op = "deleteIssuer"
        /\ call[p].id = call[q].id
        /\ Done(q) /\ ret[q] = [err |-> "storage: put failed", val |-> WasDefault(TRUE)]
        /\ Done(p) /\ ret[p] = [err |-> NoErr, val |-> WasDefault(TRUE)]
        /\ StoredDefault(storage) = ""
        /\ call[p].id \notin StoredIssuers(storage)
        /\ StoredIssuers(storage) # {}

(***************************************************************************)
(* C35: purgeIssuers returns the number of issuers it has deleted.  When   *)
(* it returns no error the count is the number of issuers it listed, no    *)
(* issuer is left in storage and no default issuer is configured.  When a  *)
(* deleteIssuer of its loop fails it returns at that issuer, with the      *)
(* error and the count of the issuers deleted before it; the issuers       *)
(* listed after it are never deleted by this call.                         *)
(***************************************************************************)
IsPurge(p) == call'[p].op = "purgeIssuers"

\* The goroutine p takes the step.
StepOf(p) == pc'[p] # pc[p] \/ loc'[p] # loc[p]

\* The ids purgeIssuers has listed before position k.
ListedBefore(p, k) == {loc[p].issuerIds[j] : j \in 1..(k - 1)}

C35_PurgeCountsDeleted ==
    [][ \A p \in Procs :
           (IsPurge(p) /\ StepOf(p))
           => /\ (pc[p] # "idle")
                 => /\ StoredIssuers(storage) \ StoredIssuers(storage')
                          \subseteq {loc[p].issuerIds[loc[p].i]}
                    /\ loc[p].deleted = loc[p].i - 1
                    /\ ListedBefore(p, loc[p].i) \cap StoredIssuers(storage) = {}
              /\ (Returns(p) /\ ret'[p].err = NoErr)
                 => /\ ret'[p].val = Deleted(Len(loc'[p].issuerIds))
                    /\ StoredIssuers(storage') = {}
                    /\ StoredDefault(storage') = ""
              /\ (Returns(p) /\ ret'[p].err # NoErr)
                 => /\ storage' = storage
                    /\ ret'[p].val = Deleted(loc[p].i - IF pc[p] = "idle" THEN 0 ELSE 1)
      ]_vars

\* purgeIssuers has listed three issuers, deleted the first and failed at
\* the second: it has returned 1 with the error, and the second and the
\* third issuer are in storage.
C35_Witness ==
    \E p \in Procs :
        /\ call[p].op = "purgeIssuers" /\ Done(p)
        /\ loc[p].issuerIds = IssuerIDs
        /\ ret[p] = [err |-> "storage: delete failed", val |-> Deleted(1)]
        /\ StoredIssuers(storage) = {IssuerIDs[2], IssuerIDs[3]}

\* purgeIssuers has listed three issuers and returned 3 without an error:
\* no issuer and no default issuer is left.
C35_WitnessAllDeleted ==
    \E p \in Procs :
        /\ call[p].op = "purgeIssuers" /\ Done(p)
        /\ loc[p].issuerIds = IssuerIDs
        /\ ret[p] = [err |-> NoErr, val |-> Deleted(3)]
        /\ StoredIssuers(storage) = {} /\ StoredDefault(storage) = ""

(***************************************************************************)
(* C36: checkForRolesReferencingIssuer reports at most 10 referencing      *)
(* roles and examines at most 100 roles.  It returns timeout = false       *)
(* without an error only when it has examined every listed role and found  *)
(* fewer than 10 matches, and inUseBy is then the number of the roles in   *)
(* storage that name the issuer; it returns timeout = true in the round in *)
(* which the 10th match or the 100th examined role is reached, also when   *)
(* that role is the last one listed.                                       *)
(***************************************************************************)
IsCheck(p) == call'[p].op = "checkForRolesReferencingIssuer"

\* The roles in storage that name the issuer.
ReferencingRoles(s, issuerName) ==
    {n \in {k[2] : k \in DOMAIN s} : s[roleIndex(n)].Issuer = issuerName}

ListedRoles(p) == {loc'[p].roleEntries[j] : j \in 1..Len(loc'[p].roleEntries)}

\* The limits, and the count of one round of the loop.
WithinLimits(p) ==
    /\ loc'[p].inUseBy <= maxRolesToFindOnIssuerChange
    /\ loc'[p].checkedRoles <= maxRolesToScanOnIssuerChange
    /\ loc'[p].i <= maxRolesToScanOnIssuerChange
    /\ Returns(p) => /\ ret'[p].val.inUseBy <= maxRolesToFindOnIssuerChange
                     /\ ret'[p].err = NoErr => ret'[p].val.inUseBy = loc'[p].inUseBy
    /\ (pc[p] = "ck_get" /\ loc'[p].err = NoErr)
       => loc'[p].inUseBy - loc[p].inUseBy
             = IF loc[p].roleEntries[loc[p].i] \in ReferencingRoles(storage, loc[p].issuerName)
               THEN 1 ELSE 0

\* timeout = true is returned in the round that reaches a limit, and then only.
TimeoutAtLimit(p) ==
    /\ (pc[p] = "ck_get" /\ loc'[p].inUseBy > loc[p].inUseBy
          /\ loc'[p].inUseBy = maxRolesToFindOnIssuerChange)
       => Returns(p) /\ ret'[p] = [err |-> NoErr, val |-> CheckResult(TRUE, loc'[p].inUseBy)]
    /\ (pc[p] = "ck_get" /\ loc'[p].checkedRoles = maxRolesToScanOnIssuerChange)
       => Returns(p) /\ ret'[p] = [err |-> NoErr, val |-> CheckResult(TRUE, loc'[p].inUseBy)]
    /\ (Returns(p) /\ ret'[p].val.timeout)
       => \/ loc'[p].inUseBy = maxRolesToFindOnIssuerChange
          \/ loc'[p].checkedRoles = maxRolesToScanOnIssuerChange

\* What a return with timeout = false says.
AllExamined(p) ==
    /\ loc'[p].i = Len(loc'[p].roleEntries)
    /\ loc'[p].checkedRoles = Len(loc'[p].roleEntries)
    /\ ret'[p].val.inUseBy < maxRolesToFindOnIssuerChange
    /\ ListedRoles(p) \subseteq {k[2] : k \in DOMAIN storage'}
       => ret'[p].val.inUseBy
             = Cardinality(ReferencingRoles(storage', loc'[p].issuerName))

C36_WitnessTenthMatch ==
    \E p \in Procs :
        /\ call[p].op = "checkForRolesReferencingIssuer" /\ Done(p)
        /\ Len(loc[p].roleEntries) = maxRolesToFindOnIssuerChange
        /\ loc[p].i = Len(loc[p].roleEntries)
        /\ ret[p] = [err |-> NoErr, val |-> CheckResult(TRUE, maxRolesToFindOnIssuerChange)]

\* The scan of a mount with 99 roles, 9 of which name the issuer, has
\* returned timeout = false and 9; a listed role that does not name the
\* issuer was deleted while the scan ran.
C36_WitnessExact ==
    \E p \in Procs :
        /\ call[p].op = "checkForRolesReferencingIssuer" /\ Done(p)
        /\ Len(loc[p].roleEntries) = 99
        /\ ret[p] = [err |-> NoErr, val |-> CheckResult(FALSE, 9)]
        /\ Cardinality(ReferencingRoles(storage, loc[p].issuerName)) = 9
        /\ roleIndex(10) \notin DOMAIN storage

(***************************************************************************)
(* C37: the Config read of the ldap mount upgrades a stored configuration  *)
(* of an earlier version once.  When the stored configuration lacks        *)
(* case_sensitive_names or use_pre111_group_cn_behavior, the configuration *)
(* returned has each missing field set to true, and it is written back,    *)
(* on a local mount or a node that is neither performance secondary nor    *)
(* standby only; a read that finds both fields writes nothing, and so does *)
(* a read after the write-back.  When no configuration is stored, the      *)
(* defaults with both fields false are returned and nothing is written.    *)
(***************************************************************************)
IsConfig(p) == call'[p].op = "Config"

StoredLdapConfig(s) == StorageGet(s, ldapConfigIndex)

\* The call p is on a mount and a node where Config writes back.
Persists(p) == call[p].localMount \/ ~call[p].secondaryOrStandby

C37_UpgradedOnce ==
    [][ \A p \in Procs :
           (IsConfig(p) /\ StepOf(p))
           => /\ (pc[p] = "lc_put" \/ storage' # storage)
                 => /\ persistNeeded(loc[p].storedConfig) /\ Persists(p)
                    /\ storage' # storage
                       => storage' = StoragePut(storage, ldapConfigIndex,
                                                UpgradedLdapConfig(loc[p].storedConfig))
              /\ (pc[p] = "lc_get" /\ Returns(p) /\ ret'[p].err = NoErr)
                 => /\ StoredLdapConfig(storage) = Nil /\ storage' = storage
                    /\ ret'[p].val = ldapConfigEntry("false", "false")
              /\ (pc[p] = "lc_end" /\ Returns(p) /\ ret'[p].err = NoErr)
                 => /\ \A f \in {"CaseSensitiveNames", "UsePre111GroupCNBehavior"} :
                          ret'[p].val[f] = IF loc[p].storedConfig[f] = "nil" THEN "true"
                                           ELSE loc[p].storedConfig[f]
                    /\ loc[p].put <=> (persistNeeded(loc[p].storedConfig) /\ Persists(p))
                    /\ loc[p].put => /\ StoredLdapConfig(storage') = ret'[p].val
                                     /\ ~persistNeeded(StoredLdapConfig(storage'))
      ]_vars

\* A read has found a configuration without case_sensitive_names, returned
\* it with the field set to true and written it back; a second read, also
\* on a node that writes back, has found the upgraded configuration,
\* returned it and written nothing.
C37_Witness ==
    \E p, q \in Procs :
        /\ call[p].op = "Config" /\ call[q].op = "Config" /\ Done(p) /\ Done(q)
        /\ ret[p].err = NoErr /\ ret[q].err = NoErr
        /\ loc[p].storedConfig # Nil /\ loc[p].storedConfig.CaseSensitiveNames = "nil"
        /\ ret[p].val.CaseSensitiveNames = "true"
        /\ loc[p].put /\ StoredLdapConfig(storage) = ret[p].val
        /\ Persists(q) /\ loc[q].storedConfig = ret[p].val
        /\ ret[q].val = ret[p].val /\ ~loc[q].put

\* A read on a performance standby has returned the upgraded configuration
\* and the stored one still lacks the field.
C37_WitnessNotPersisted ==
    \E p \in Procs :
        /\ call[p].op = "Config" /\ Done(p) /\ ret[p].err = NoErr /\ ~Persists(p)
        /\ loc[p].storedConfig # Nil /\ persistNeeded(loc[p].storedConfig)
        /\ ret[p].val = UpgradedLdapConfig(loc[p].storedConfig)
        /\ StoredLdapConfig(storage) = loc[p].storedConfig

(***************************************************************************)
(* C38: lazyPaginatedQuery calls the adapter only when no dataset is       *)
(* cached for the model under the cache key of the query.  The key leaves  *)
(* out size, page, responsePath and pageFilter: once a query has stored    *)
(* its dataset, a query for the same model that differs from it in these   *)
(* four fields only gets its page from that dataset, without a call of the *)
(* adapter, as long as clearDataset has not removed the dataset.           *)
(***************************************************************************)
IsQuery(p) == call'[p].op = "lazyPaginatedQuery"

\* The two queries differ at most in size, page, responsePath and pageFilter.
SameButForPaging(query1, query2) ==
    \A k \in DOMAIN query1 \ {"size", "page", "responsePath", "pageFilter"} :
        query1[k] = query2[k]

\* The dataset the query of q has stored, if it is still cached.
StoredBy(q) ==
    IF /\ pc[q] = "done" /\ call[q].op = "lazyPaginatedQuery"
       /\ loc[q].adapterCalled /\ ret[q].err = NoErr
    THEN getDataset(storage, call[q].modelType, call[q].query)
    ELSE Nil

C38_ServedFromCache ==
    [][ \A p \in Procs :
           (IsQuery(p) /\ pc[p] = "idle" /\ pc'[p] # "idle")
           => /\ loc'[p].adapterCalled
                 <=> getDataset(storage, call'[p].modelType, call'[p].query) = Nil
              /\ loc'[p].adapterCalled <=> pc'[p] = "q_adapter"
              /\ \A q \in Procs \ {p} :
                    (/\ StoredBy(q) # Nil
                     /\ normalizeModelName(call[q].modelType)
                           = normalizeModelName(call'[p].modelType)
                     /\ SameButForPaging(call[q].query, call'[p].query))
                    => /\ ~loc'[p].adapterCalled /\ pc'[p] = "done"
                       /\ ret'[p].err = NoErr
                       /\ ret'[p].val.total = Len(StoredBy(q).dataset)
                       /\ ret'[p].val.data
                             = Slice(filterData(call'[p].query.pageFilter, StoredBy(q).dataset),
                                     ret'[p].val.currentPage * loc'[p].query.size
                                        - loc'[p].query.size,
                                     ret'[p].val.currentPage * loc'[p].query.size)
      ]_vars

\* A query has stored the dataset the adapter gave it; a second query for
\* the same model, with another size, page, response path and filter, has
\* got its page from that dataset without a call of the adapter.
C38_Witness ==
    \E p, q \in Procs :
        /\ StoredBy(q) # Nil /\ StoredBy(q).dataset # <<>>
        /\ pc[p] = "done" /\ call[p].op = "lazyPaginatedQuery"
        /\ normalizeModelName(call[p].modelType) = normalizeModelName(call[q].modelType)
        /\ call[p].modelType # call[q].modelType
        /\ call[p].query.id = call[q].query.id
        /\ call[p].query.size # call[q].query.size
        /\ call[p].query.page # call[q].query.page
        /\ call[p].query.responsePath # call[q].query.responsePath
        /\ call[p].query.pageFilter # call[q].query.pageFilter
        /\ ~loc[p].adapterCalled /\ ret[p].err = NoErr
        /\ ret[p].val.total = Len(StoredBy(q).dataset)
        /\ ret[p].val.data # <<>>

\* After clearDataset a query for the same model and key calls the adapter
\* again: two queries that agree but for the paging have both called it and
\* returned, and the cache holds no dataset.
C38_WitnessCleared ==
    \E p, q \in Procs :
        /\ p # q /\ pc[p] = "done" /\ pc[q] = "done"
        /\ call[p].op = "lazyPaginatedQuery" /\ call[q].op = "lazyPaginatedQuery"
        /\ call[p].modelType = call[q].modelType
        /\ SameButForPaging(call[p].query, call[q].query)
        /\ loc[p].adapterCalled /\ loc[q].adapterCalled
        /\ ret[p].err = NoErr /\ ret[q].err = NoErr
        /\ DOMAIN storage = {}

====
